---------------------------- MODULE WorkersProofs ----------------------------
(***************************************************************************)
(* Proofs about Workers, for any sets of names and schedulers, any         *)
(* capacity and cap, and every kind and number of faults, a lost           *)
(* connection that frees the lock among them.  The argument: at most one   *)
(* live transaction exists (LockHeld), so the rows stay as it read them;   *)
(* a name in reserveRunnerName's hands is in nobody else's view (Private), *)
(* so a pod appears only under a name without a committed row; and a pod   *)
(* never comes back, so what a stale listing says is over is over.         *)
(*                                                                         *)
(* The second part adds the slots: whoever holds the lock has counted the  *)
(* pods that exist, and an iteration that has lost it may still create one *)
(* pod, whose name it holds (SlotsOK).  The third adds the runners: one is *)
(* registered before its pod exists, so that a worker seen with a pod but  *)
(* missing from GitHub's list has left (RunnersOK) -- unless the list of   *)
(* runners failed, which reads as an empty one.                            *)
(***************************************************************************)
EXTENDS Workers, FiniteSetTheorems, TLAPS

Over == {"succeeded", "failed", "gone"}

(* Between AddWorker and the create call: the row is pending, no pod yet.  *)
Reserving(l) == l.pc \in {"jit", "create"}

NameOK(l) == /\ l.pc = "kill" => l.cur \in Worker
             /\ Reserving(l) => /\ l.cur \in Worker /\ l.slots > 0
                                /\ row[l.cur] = "none" /\ pod[l.cur] = "none"
                                /\ l.view[l.cur] # "none"

SeenOK(l) == l.pc = "read" =>
  \A w \in Worker : /\ l.seen[w] \in Over => pod[w] \in Over
                    /\ row[w] \in Active => l.seen[w] # "none"

ViewOK(l) == \A w \in Worker :
  /\ l.view[w] = row[w] \/ (w \in l.wrote /\ <<row[w], l.view[w]>> \in Forward)
  /\ l.view[w] = "completed" => pod[w] \in Over
  /\ l.view[w] \in Active => pod[w] # "none" \/ (Reserving(l) /\ w = l.cur)

Capped(view) == Cardinality(ActiveIn(view)) <= MaxWorkers

Sound(l) == NameOK(l) /\ (l.live => SeenOK(l) /\ ViewOK(l) /\ Capped(l.view))

LockHeld == \A s \in Scheduler : Live(s) => lock = s

RowsOK == \A w \in Worker : /\ row[w] \in Active => pod[w] # "none"
                            /\ row[w] = "completed" => pod[w] \in Over

Private == \A s, t \in Scheduler :
             s # t /\ Reserving(sch[s]) => sch[t].view[sch[s].cur] = "none"

AllSound == \A s \in Scheduler : Sound(sch[s])

IInv == TypeOK /\ LockHeld /\ RowsOK /\ CapRespected /\ AllSound /\ Private

-----------------------------------------------------------------------------
USE ConstantsAssumption DEF Active, Terminal, Status, Phases, Occupying, Listed,
    Over, k8s, world

(* Marking workers as over never raises the number of active ones.         *)
LEMMA FewerActive ==
  ASSUME NEW v, NEW u, Capped(v), ActiveIn(u) \subseteq ActiveIn(v)
  PROVE  Capped(u)
<1>1. IsFiniteSet(ActiveIn(v))
  BY FS_Subset DEF ActiveIn
<1>2. Cardinality(ActiveIn(u)) <= Cardinality(ActiveIn(v)) /\ IsFiniteSet(ActiveIn(u))
  BY <1>1, FS_Subset
<1>3. Cardinality(ActiveIn(u)) \in Nat /\ Cardinality(ActiveIn(v)) \in Nat
  BY <1>1, <1>2, FS_CardinalityType
<1> QED BY <1>2, <1>3 DEF Capped

(* A step of Kubernetes or of a scheduler does not bring a pod back, and   *)
(* only creates one under the name in hand.                                *)
PodsKept(s) == \A w \in Worker :
  /\ pod[w] \in Over => pod'[w] \in Over
  /\ pod[w] # "none" => pod'[w] # "none"
  /\ pod[w] = "none" => \/ pod'[w] = "none"
                        \/ Reserving(sch[s]) /\ w = sch[s].cur

(* A step that leaves the committed rows alone and changes only scheduler  *)
(* s: it is enough that s's own state is sound afterwards, and that the    *)
(* names in hand stay private.                                             *)
LEMMA LocalStep ==
  ASSUME IInv, NEW s \in Scheduler, NEW l,
         sch' = [sch EXCEPT ![s] = l], row' = row, TypeOK', LockHeld',
         PodsKept(s), Sound(l)',
         \A w \in Worker : sch[s].view[w] = "none" =>
            \/ l.view[w] = "none"
            \/ Reserving(l) /\ w = l.cur /\ \A t \in Scheduler : sch[t].view[w] = "none",
         Reserving(l) => \A t \in Scheduler : t # s => sch[t].view[l.cur] = "none"
  PROVE  IInv'
<1>1. /\ sch'[s] = l
      /\ \A t \in Scheduler : t # s => sch'[t] = sch[t]
      /\ \A t \in Scheduler : sch[t] \in Local /\ Sound(sch[t]) /\ NameOK(sch[t])
  BY DEF IInv, TypeOK, AllSound, Sound
<1>2. RowsOK'
  BY <1>1 DEF IInv, RowsOK, PodsKept, NameOK
<1>3. CapRespected'
  BY DEF IInv, CapRespected, ActiveIn
<1>4. ASSUME NEW t \in Scheduler, t # s PROVE Sound(sch[t])'
  <2>1. ASSUME NEW w \in Worker, pod[w] = "none", pod'[w] # "none"
        PROVE  /\ row[w] = "none"
               /\ sch[t].view[w] = "none"
    BY <2>1, <1>1, <1>4 DEF PodsKept, IInv, Private, NameOK
  <2>2. NameOK(sch[t])'
    BY <1>1, <1>4, <2>1 DEF NameOK, PodsKept
  <2>3. SeenOK(sch[t]) => SeenOK(sch[t])'
    BY <1>1, <1>4 DEF SeenOK, PodsKept
  <2>4. ViewOK(sch[t]) => ViewOK(sch[t])'
    BY <1>1, <1>4 DEF ViewOK, PodsKept, Reserving
  <2> QED BY <1>1, <1>4, <2>2, <2>3, <2>4 DEF Sound, Capped, ActiveIn
<1>5. AllSound'
  BY <1>1, <1>4 DEF AllSound
<1>6. Private'
  <2> SUFFICES ASSUME NEW a \in Scheduler, NEW b \in Scheduler, a # b,
                      Reserving(sch'[a])
               PROVE  sch'[b].view[sch'[a].cur] = "none"
    BY DEF Private, Reserving
  <2>1. CASE a = s
    BY <1>1, <2>1
  <2>2. CASE a # s
    <3>1. Reserving(sch[a]) /\ sch[a].cur \in Worker /\ sch[a].view[sch[a].cur] # "none"
      BY <1>1, <2>2 DEF NameOK
    <3>2. sch[b].view[sch[a].cur] = "none"
      BY <3>1 DEF IInv, Private
    <3> QED BY <1>1, <2>2, <3>1, <3>2
  <2> QED BY <2>1, <2>2
<1> QED BY <1>2, <1>3, <1>5, <1>6 DEF IInv

-----------------------------------------------------------------------------
(* What most steps of an iteration do to their transaction: nothing, or    *)
(* they mark active workers as failed.                                     *)
Falls(s, l) ==
  /\ sch[s].wrote \subseteq l.wrote
  /\ \A w \in Worker : \/ l.view[w] = sch[s].view[w]
                       \/ /\ sch[s].view[w] \in Active
                          /\ l.view[w] = "failed" /\ w \in l.wrote

LEMMA FallingStep ==
  ASSUME IInv, NEW s \in Scheduler, NEW l,
         sch' = [sch EXCEPT ![s] = l], row' = row, lock' = lock, TypeOK',
         PodsKept(s), Falls(s, l), l.live => Live(s),
         l.pc # "read", ~Reserving(l), l.pc = "kill" => l.cur \in Worker,
         Reserving(sch[s]) => \/ pod'[sch[s].cur] # "none"
                              \/ ~l.live \/ l.view[sch[s].cur] \notin Active
  PROVE  IInv'
<1>1. sch[s] \in Local /\ Sound(sch[s]) /\ sch'[s] = l /\ l \in Local
  BY DEF IInv, TypeOK, AllSound
<1>2. LockHeld'
  BY <1>1 DEF IInv, TypeOK, LockHeld, Live
<1>3. NameOK(l)'
  BY DEF NameOK, Reserving
<1>4. ASSUME l.live PROVE ViewOK(l)'
  <2>1. Live(s) /\ ViewOK(sch[s])
    BY <1>1, <1>4 DEF Sound, Live
  <2> SUFFICES ASSUME NEW w \in Worker
               PROVE  /\ \/ l.view[w] = row[w]
                         \/ w \in l.wrote /\ <<row[w], l.view[w]>> \in Forward
                      /\ l.view[w] = "completed" => pod'[w] \in Over
                      /\ l.view[w] \in Active => pod'[w] # "none"
    BY DEF ViewOK
  <2>2. CASE l.view[w] = sch[s].view[w]
    BY <1>4, <2>1, <2>2 DEF ViewOK, Falls, PodsKept
  <2>3. CASE sch[s].view[w] \in Active /\ l.view[w] = "failed" /\ w \in l.wrote
    BY <2>1, <2>3 DEF ViewOK, Forward
  <2> QED BY <2>2, <2>3 DEF Falls
<1>5. ASSUME l.live PROVE Capped(l.view)'
  <2>1. Capped(sch[s].view)
    BY <1>1, <1>5 DEF Sound, Live
  <2>2. ActiveIn(l.view) \subseteq ActiveIn(sch[s].view)
    BY DEF ActiveIn, Falls
  <2> QED BY <2>1, <2>2, FewerActive DEF Capped, ActiveIn
<1>6. Sound(l)'
  BY <1>3, <1>4, <1>5 DEF Sound, SeenOK
<1>7. \A w \in Worker : sch[s].view[w] = "none" => l.view[w] = "none"
  BY DEF Falls
<1> QED BY <1>2, <1>6, <1>7, LocalStep

(* MarkWorker* with "failed" is such a fall.                               *)
LEMMA MarkedFalls ==
  ASSUME IInv, NEW s \in Scheduler, NEW w \in Worker
  PROVE  LET m == Marked(s, w, "failed") IN
         /\ m.view \in [Worker -> Status] /\ m.wrote \subseteq Worker
         /\ sch[s].wrote \subseteq m.wrote
         /\ \A v \in Worker : \/ m.view[v] = sch[s].view[v]
                              \/ /\ sch[s].view[v] \in Active
                                 /\ m.view[v] = "failed" /\ v \in m.wrote
         /\ Live(s) => m.view[w] \notin Active
<1>1. sch[s].view \in [Worker -> Status] /\ sch[s].wrote \subseteq Worker
  BY DEF IInv, TypeOK, Local
<1>2. CASE Live(s) /\ sch[s].view[w] \in Active
  BY <1>1, <1>2 DEF Marked
<1>3. CASE ~(Live(s) /\ sch[s].view[w] \in Active)
  BY <1>1, <1>3 DEF Marked
<1> QED BY <1>2, <1>3

(* Removing pods brings none back.                                         *)
LEMMA RemoveKeeps ==
  ASSUME TypeOK, NEW S \in SUBSET Worker, RemovePods(S), NEW s
  PROVE  /\ PodsKept(s)
         /\ pod' \in [Worker -> Phases] /\ age' \in [Worker -> 0..2]
         /\ killed' \subseteq Worker /\ down' \subseteq Worker /\ late' \subseteq Worker
BY DEF TypeOK, RemovePods, PodsKept

-----------------------------------------------------------------------------
(* The steps of an iteration that write no row, or mark one as failed.     *)

(* The new local state keeps the transaction as it is.                     *)
SameTx(s, l) == /\ sch' = [sch EXCEPT ![s] = l] /\ l \in Local
                /\ l.view = sch[s].view /\ l.wrote = sch[s].wrote
                /\ l.live = sch[s].live

LEMMA LeaveSyncSameTx ==
  ASSUME TypeOK, NEW s \in Scheduler, LeaveSync(s)
  PROVE  \E l : SameTx(s, l) /\ l.pc = "match"
<1> DEFINE l == [sch[s] EXCEPT !.pc = "match", !.seen = Idle.seen, !.stranded = {},
                               !.gh = Idle.gh, !.todo = {}]
<1>1. sch[s] \in Local
  BY DEF TypeOK
<1>2. Idle.seen \in [Worker -> Phases] /\ Idle.gh \in [Worker -> {"none"} \union Registered]
  BY DEF Idle
<1>3. l \in Local /\ l.view = sch[s].view /\ l.wrote = sch[s].wrote
      /\ l.live = sch[s].live /\ l.pc = "match"
  BY <1>1, <1>2 DEF Local, PCs
<1> QED BY <1>3 DEF SameTx, LeaveSync, Become

LEMMA SameTxStep ==
  ASSUME IInv, NEW s \in Scheduler, NEW l, SameTx(s, l),
         ~Reserving(sch[s]), l.pc \notin {"read", "jit", "create"},
         l.pc = "kill" => l.cur \in Worker,
         row' = row, lock' = lock, PodsKept(s),
         pod' \in [Worker -> Phases], killed' \subseteq Worker, down' \subseteq Worker,
         runner' \in [Worker -> RunnerState], jobRow' = jobRow, late' \subseteq Worker,
         age' \in [Worker -> 0..2], faults' \in 0..MaxFaults
  PROVE  IInv'
<1>1. TypeOK'
  BY DEF IInv, TypeOK, SameTx
<1>2. Falls(s, l) /\ ~Reserving(l) /\ l.live = Live(s)
  BY DEF SameTx, Falls, Reserving, Live
<1> QED BY <1>1, <1>2, FallingStep DEF SameTx

LEMMA HealthChecksPreserves ==
  ASSUME IInv, NEW s \in Scheduler, HealthChecks(s) PROVE IInv'
<1> DEFINE to(list, todo) == [sch[s] EXCEPT !.pc = "health", !.gh = list, !.todo = todo]
           Lists == [Worker -> {"none"} \union Registered]
<1>1. TypeOK /\ sch[s] \in Local /\ faults \in 0..MaxFaults
  BY DEF IInv, TypeOK
<1>2. ASSUME NEW list \in Lists, NEW todo \in SUBSET Worker, Become(s, to(list, todo))
      PROVE  \E l : SameTx(s, l) /\ l.pc = "health"
  <2>1. to(list, todo) \in Local /\ to(list, todo).pc = "health"
    BY <1>1 DEF Local, PCs
  <2>2. SameTx(s, to(list, todo))
    BY <1>1, <1>2, <2>1 DEF SameTx, Become, Local
  <2> QED BY <2>1, <2>2
<1>3. RunnerList \in Lists /\ NoRunners \in Lists
  BY DEF RunnerList, NoRunners
<1>4. {w \in ActiveIn(sch[s].view) : sch[s].seen[w] \in Listed} \in SUBSET Worker
  BY DEF ActiveIn
<1>5. \E l : SameTx(s, l) /\ l.pc \in {"match", "health"}
  BY <1>1, <1>2, <1>3, <1>4, LeaveSyncSameTx DEF HealthChecks
<1>6. faults' \in 0..MaxFaults /\ ~Reserving(sch[s]) /\ UNCHANGED <<row, lock, world>>
  BY <1>1 DEF HealthChecks, Fault, NoFault, At, Reserving
<1> QED BY <1>5, <1>6, SameTxStep DEF PodsKept, IInv, TypeOK

LEMMA KeepWorkerPreserves ==
  ASSUME IInv, NEW s \in Scheduler, NEW w \in Worker, KeepWorker(s, w) PROVE IInv'
<1> DEFINE l == [sch[s] EXCEPT !.todo = @ \ {w}]
<1>0. sch[s] \in Local
  BY DEF IInv, TypeOK
<1>1. sch[s] \in Local /\ l \in Local
  BY <1>0 DEF Local
<1>2. SameTx(s, l) /\ l.pc = "health" /\ ~Reserving(sch[s])
  BY <1>1 DEF KeepWorker, Become, SameTx, At, Reserving, Local
<1> QED BY <1>2, SameTxStep DEF KeepWorker, PodsKept, IInv, TypeOK

LEMMA GiveUpPreserves ==
  ASSUME IInv, NEW s \in Scheduler, NEW w \in Worker, GiveUp(s, w) PROVE IInv'
<1> DEFINE kill == [sch[s] EXCEPT !.pc = "kill", !.cur = w]
           skip == [sch[s] EXCEPT !.todo = @ \ {w}]
<1>1. TypeOK /\ sch[s] \in Local /\ sch[s].pc = "health" /\ runner' \in [Worker -> RunnerState]
      /\ faults' \in 0..MaxFaults
  BY DEF GiveUp, IInv, TypeOK, At, Deleted, Fault, NoFault, RunnerState
<1>2. Become(s, kill) => SameTx(s, kill) /\ kill.pc = "kill" /\ kill.cur = w
  BY <1>1 DEF Become, SameTx, Local, PCs
<1>3. Become(s, skip) => SameTx(s, skip) /\ skip.pc = "health"
  BY <1>1 DEF Become, SameTx, Local
<1>4. \E l : SameTx(s, l) /\ l.pc \in {"kill", "health"} /\ (l.pc = "kill" => l.cur = w)
  BY <1>2, <1>3 DEF GiveUp
<1>5. ~Reserving(sch[s]) /\ UNCHANGED <<row, lock, k8s, jobRow>>
  BY <1>1 DEF GiveUp, Reserving
<1> QED BY <1>1, <1>4, <1>5, SameTxStep DEF PodsKept, TypeOK

LEMMA BeginCleanupPreserves ==
  ASSUME IInv, NEW s \in Scheduler, BeginCleanup(s) PROVE IInv'
<1> DEFINE to(S) == [sch[s] EXCEPT !.pc = "cleanup", !.todo = S, !.gh = Idle.gh]
<1>1. TypeOK /\ sch[s] \in Local /\ sch[s].pc = "health" /\ faults' \in 0..MaxFaults
  BY DEF BeginCleanup, IInv, TypeOK, At, Fault, NoFault
<1>2. ASSUME NEW S \in SUBSET Worker, Become(s, to(S))
      PROVE  \E l : SameTx(s, l) /\ l.pc = "cleanup"
  <2>1. Idle.gh \in [Worker -> {"none"} \union Registered]
    BY DEF Idle
  <2>2. to(S) \in Local /\ to(S).pc = "cleanup"
    BY <1>1, <2>1 DEF Local, PCs
  <2>3. SameTx(s, to(S))
    BY <1>1, <1>2, <2>2 DEF SameTx, Become, Local
  <2> QED BY <2>2, <2>3
<1>3. \E l : SameTx(s, l) /\ l.pc \in {"match", "cleanup"}
  BY <1>1, <1>2, LeaveSyncSameTx DEF BeginCleanup, Stale
<1> QED BY <1>1, <1>3, SameTxStep DEF BeginCleanup, PodsKept, IInv, TypeOK, Reserving

LEMMA GitHubCleanupPreserves ==
  ASSUME IInv, NEW s \in Scheduler, NEW w \in Worker, GitHubCleanup(s, w) PROVE IInv'
<1> DEFINE l == [sch[s] EXCEPT !.todo = @ \ {w}]
<1>1. TypeOK /\ sch[s] \in Local /\ sch[s].pc = "cleanup" /\ runner' \in [Worker -> RunnerState]
      /\ faults' \in 0..MaxFaults
  BY DEF GitHubCleanup, IInv, TypeOK, At, Deleted, Fault, NoFault, RunnerState
<1>2. SameTx(s, l) /\ l.pc = "cleanup" /\ ~Reserving(sch[s])
  BY <1>1 DEF GitHubCleanup, Become, SameTx, Reserving, Local
<1> QED BY <1>1, <1>2, SameTxStep DEF GitHubCleanup, PodsKept, TypeOK

LEMMA DeleteTerminalPodsPreserves ==
  ASSUME IInv, NEW s \in Scheduler, DeleteTerminalPods(s) PROVE IInv'
<1>1. TypeOK /\ sch[s].pc = "cleanup" /\ ~Reserving(sch[s])
  BY DEF DeleteTerminalPods, IInv, At, Reserving
<1>2. PICK S \in SUBSET Worker : RemovePods(S)
  BY DEF DeleteTerminalPods
<1>3. \E l : SameTx(s, l) /\ l.pc = "match"
  BY <1>1, LeaveSyncSameTx DEF DeleteTerminalPods
<1> QED BY <1>1, <1>2, <1>3, RemoveKeeps, SameTxStep DEF DeleteTerminalPods, TypeOK

LEMMA DemandMatchPreserves ==
  ASSUME IInv, NEW s \in Scheduler, DemandMatch(s) PROVE IInv'
<1>1. TypeOK /\ sch[s] \in Local /\ sch[s].pc = "match" /\ ~Reserving(sch[s])
  BY DEF DemandMatch, IInv, TypeOK, At, Reserving
<1>2. Available \in 0..Slots
  <2>1. IsFiniteSet(OccupyingPods)
    BY FS_Subset DEF OccupyingPods
  <2>2. Cardinality(OccupyingPods) \in Nat
    BY <2>1, FS_CardinalityType
  <2> QED BY <2>2 DEF Available
<1>3. ASSUME NEW pending \in 0..MaxDemand,
             Become(s, [sch[s] EXCEPT !.pc = "provision", !.slots = Available, !.tries = pending])
      PROVE  \E l : SameTx(s, l) /\ l.pc = "provision"
  <2> DEFINE l == [sch[s] EXCEPT !.pc = "provision", !.slots = Available, !.tries = pending]
  <2>1. l \in Local /\ l.pc = "provision"
    BY <1>1, <1>2 DEF Local, PCs
  <2>2. SameTx(s, l)
    BY <1>1, <1>3, <2>1 DEF SameTx, Become, Local
  <2> QED BY <2>1, <2>2
<1>4. ASSUME Goto(s, "end") PROVE \E l : SameTx(s, l) /\ l.pc = "end"
  <2> DEFINE l == [sch[s] EXCEPT !.pc = "end"]
  <2>1. l \in Local /\ l.pc = "end"
    BY <1>1 DEF Local, PCs
  <2>2. SameTx(s, l)
    BY <1>1, <1>4, <2>1 DEF SameTx, Goto, Become, Local
  <2> QED BY <2>1, <2>2
<1>5. \E l : SameTx(s, l) /\ l.pc \in {"provision", "end"}
  BY <1>3, <1>4 DEF DemandMatch
<1> QED BY <1>1, <1>5, SameTxStep DEF DemandMatch, PodsKept, TypeOK

LEMMA SkipJobPreserves ==
  ASSUME IInv, NEW s \in Scheduler, SkipJob(s) PROVE IInv'
<1> DEFINE l == [sch[s] EXCEPT !.tries = @ - 1]
<1>1. TypeOK /\ sch[s] \in Local /\ sch[s].pc = "provision" /\ sch[s].tries > 0
  BY DEF SkipJob, Pops, IInv, TypeOK, At
<1>2. l \in Local /\ l.pc = "provision"
  BY <1>1 DEF Local
<1>3. SameTx(s, l) /\ ~Reserving(sch[s])
  BY <1>1, <1>2 DEF SkipJob, Become, SameTx, Reserving
<1> QED BY <1>1, <1>2, <1>3, SameTxStep DEF SkipJob, PodsKept, TypeOK

LEMMA EndMatchPreserves ==
  ASSUME IInv, NEW s \in Scheduler, EndMatch(s) PROVE IInv'
<1> DEFINE l == [sch[s] EXCEPT !.pc = "end"]
<1>1. TypeOK /\ sch[s] \in Local /\ sch[s].pc = "provision"
  BY DEF EndMatch, IInv, TypeOK, At
<1>2. l \in Local /\ l.pc = "end"
  BY <1>1 DEF Local, PCs
<1>3. SameTx(s, l) /\ ~Reserving(sch[s])
  BY <1>1, <1>2 DEF EndMatch, Goto, Become, SameTx, Reserving
<1> QED BY <1>1, <1>2, <1>3, SameTxStep DEF EndMatch, PodsKept, TypeOK

-----------------------------------------------------------------------------
(* The steps that mark a worker as failed.                                 *)

LEMMA UnreachableNodeCheckPreserves ==
  ASSUME IInv, NEW s \in Scheduler, NEW w \in Worker, UnreachableNodeCheck(s, w) PROVE IInv'
<1> DEFINE m == Marked(s, w, "failed")
           l == [sch[s] EXCEPT !.todo = @ \ {w}, !.view = m.view, !.wrote = m.wrote]
<1>1. TypeOK /\ sch[s] \in Local /\ sch[s].pc = "nodes" /\ faults' \in 0..MaxFaults
  BY DEF UnreachableNodeCheck, ForceDelete, IInv, TypeOK, At, Fault, NoFault
<1>2. m.view \in [Worker -> Status] /\ m.wrote \subseteq Worker
  BY MarkedFalls
<1>3. l \in Local /\ l.pc = "nodes" /\ l.live = sch[s].live /\ l.view = m.view
      /\ l.wrote = m.wrote
  <2> HIDE DEF m
  <2> QED BY <1>1, <1>2 DEF Local
<1>4. Falls(s, l)
  BY <1>3, MarkedFalls DEF Falls
<1>5. /\ PodsKept(s)
      /\ pod' \in [Worker -> Phases] /\ age' \in [Worker -> 0..2]
      /\ killed' \subseteq Worker /\ down' \subseteq Worker /\ late' \subseteq Worker
  <2>1. CASE RemovePods({w})
    BY <1>1, <2>1, RemoveKeeps
  <2>2. CASE UNCHANGED k8s
    BY <1>1, <2>2 DEF TypeOK, PodsKept
  <2> QED BY <2>1, <2>2 DEF UnreachableNodeCheck, ForceDelete
<1>6. sch' = [sch EXCEPT ![s] = l]
  BY DEF UnreachableNodeCheck, Become
<1>7. TypeOK' /\ row' = row /\ lock' = lock
  <2> HIDE DEF l
  <2> QED BY <1>1, <1>3, <1>5, <1>6 DEF UnreachableNodeCheck, TypeOK
<1>8. ~Reserving(sch[s]) /\ ~Reserving(l)
  BY <1>1, <1>3 DEF Reserving
<1> HIDE DEF l
<1> QED BY <1>3, <1>4, <1>5, <1>6, <1>7, <1>8, FallingStep DEF Live

LEMMA FailAndCleanupPreserves ==
  ASSUME IInv, NEW s \in Scheduler, FailAndCleanup(s) PROVE IInv'
<1> DEFINE w == sch[s].cur
           m == Marked(s, w, "failed")
           l == [sch[s] EXCEPT !.pc = "health", !.cur = NoOne, !.todo = @ \ {w},
                               !.view = m.view, !.wrote = m.wrote]
<1>1. TypeOK /\ sch[s] \in Local /\ sch[s].pc = "kill" /\ w \in Worker
  BY DEF FailAndCleanup, IInv, TypeOK, At, AllSound, Sound, NameOK
<1>2. m.view \in [Worker -> Status] /\ m.wrote \subseteq Worker
  BY <1>1, MarkedFalls
<1>3. l \in Local /\ l.pc = "health" /\ l.live = sch[s].live /\ l.view = m.view
      /\ l.wrote = m.wrote
  <2> HIDE DEF m
  <2> QED BY <1>1, <1>2 DEF Local, PCs
<1>4. Falls(s, l)
  BY <1>1, <1>3, MarkedFalls DEF Falls
<1>5. killed' \subseteq Worker /\ faults' \in 0..MaxFaults
  BY <1>1 DEF FailAndCleanup, KillPod, TypeOK, Fault, NoFault
<1>6. sch' = [sch EXCEPT ![s] = l]
  BY DEF FailAndCleanup, Become
<1>7. TypeOK' /\ row' = row /\ lock' = lock /\ PodsKept(s)
  <2> HIDE DEF l
  <2> QED BY <1>1, <1>3, <1>5, <1>6 DEF FailAndCleanup, TypeOK, PodsKept
<1>8. ~Reserving(sch[s]) /\ ~Reserving(l)
  BY <1>1, <1>3 DEF Reserving
<1> HIDE DEF l
<1> QED BY <1>3, <1>4, <1>6, <1>7, <1>8, FallingStep DEF Live

(* provisionRunner is over: the slot may be used up, the row may have      *)
(* failed, and if it has not the pod exists.                               *)
LEMMA ProvisionedStep ==
  ASSUME IInv, NEW s \in Scheduler, NEW slots \in 0..Slots, NEW tries \in 0..MaxDemand,
         NEW status \in {sch[s].view[sch[s].cur], "failed"},
         Reserving(sch[s]), Provisioned(s, status, slots, tries),
         row' = row, lock' = lock, PodsKept(s), UNCHANGED <<killed, down, late, age, jobRow>>,
         pod' \in [Worker -> Phases], runner' \in [Worker -> RunnerState],
         faults' \in 0..MaxFaults,
         status = "failed" \/ pod'[sch[s].cur] # "none"
  PROVE  IInv'
<1> DEFINE w == sch[s].cur
           m == Marked(s, w, status)
           l == [sch[s] EXCEPT !.pc = "provision", !.cur = NoOne, !.slots = slots,
                               !.tries = tries, !.view = m.view, !.wrote = m.wrote]
<1>1. TypeOK /\ sch[s] \in Local /\ w \in Worker
  BY DEF IInv, TypeOK, AllSound, Sound, NameOK
<1>2. /\ m.view \in [Worker -> Status] /\ m.wrote \subseteq Worker
      /\ sch[s].wrote \subseteq m.wrote
      /\ \A v \in Worker : \/ m.view[v] = sch[s].view[v]
                           \/ /\ sch[s].view[v] \in Active
                              /\ m.view[v] = "failed" /\ v \in m.wrote
      /\ Live(s) /\ status = "failed" => m.view[w] \notin Active
  <2>1. CASE status = "failed"
    BY <1>1, <2>1, MarkedFalls
  <2>2. CASE status = sch[s].view[w]
    <3>1. sch[s].view \in [Worker -> Status] /\ sch[s].wrote \subseteq Worker
      BY <1>1 DEF Local
    <3>2. m.view = sch[s].view /\ m.wrote \subseteq Worker /\ sch[s].wrote \subseteq m.wrote
      BY <1>1, <2>2, <3>1 DEF Marked
    <3>3. Live(s) /\ status = "failed" => m.view[w] \notin Active
      BY <2>2, <3>2
    <3> QED BY <3>1, <3>2, <3>3
  <2> QED BY <2>1, <2>2
<1>3. l \in Local /\ l.pc = "provision" /\ l.live = sch[s].live /\ l.view = m.view
      /\ l.wrote = m.wrote
  <2> HIDE DEF m
  <2> QED BY <1>1, <1>2 DEF Local, PCs
<1>4. Falls(s, l)
  BY <1>2, <1>3 DEF Falls
<1>5. sch' = [sch EXCEPT ![s] = l]
  BY DEF Provisioned, Become
<1>6. TypeOK'
  <2> HIDE DEF l
  <2> QED BY <1>1, <1>3, <1>5 DEF TypeOK
<1>7. ~Reserving(l)
  BY <1>3 DEF Reserving
<1>8. pod'[w] # "none" \/ ~l.live \/ l.view[w] \notin Active
  BY <1>2, <1>3 DEF Live
<1> HIDE DEF l
<1> QED BY <1>3, <1>4, <1>5, <1>6, <1>7, <1>8, FallingStep DEF Live

LEMMA CreatePodPreserves ==
  ASSUME IInv, NEW s \in Scheduler, CreatePod(s) PROVE IInv'
<1> DEFINE w == sch[s].cur
<1>1. /\ TypeOK /\ sch[s] \in Local /\ Reserving(sch[s]) /\ w \in Worker
      /\ pod[w] = "none" /\ sch[s].slots - 1 \in 0..Slots /\ sch[s].tries \in 0..MaxDemand
  BY DEF CreatePod, IInv, TypeOK, At, AllSound, Sound, NameOK, Reserving, Local
<1>2. pod' = [pod EXCEPT ![w] = "pending"] \/ pod' = pod
  BY DEF CreatePod
<1>3. pod' \in [Worker -> Phases] /\ PodsKept(s) /\ faults' \in 0..MaxFaults
  BY <1>1, <1>2 DEF TypeOK, PodsKept, CreatePod, Fault, NoFault
<1>4. \/ Provisioned(s, "failed", sch[s].slots - 1, sch[s].tries)
      \/ /\ Provisioned(s, sch[s].view[w], sch[s].slots - 1, sch[s].tries)
         /\ pod'[w] # "none"
  BY <1>1 DEF CreatePod, TypeOK
<1>5. runner' \in [Worker -> RunnerState] /\ UNCHANGED <<row, lock, killed, down, late, age, jobRow>>
  BY <1>1 DEF CreatePod, TypeOK
<1> QED BY <1>1, <1>3, <1>4, <1>5, ProvisionedStep

LEMMA CreateJITPreserves ==
  ASSUME IInv, NEW s \in Scheduler, CreateJIT(s) PROVE IInv'
<1> DEFINE w == sch[s].cur
<1>1. /\ TypeOK /\ sch[s] \in Local /\ sch[s].pc = "jit" /\ Reserving(sch[s]) /\ w \in Worker
      /\ sch[s].slots \in 0..Slots /\ sch[s].slots - 1 \in 0..Slots
      /\ sch[s].tries \in 0..MaxDemand /\ 0 \in 0..MaxDemand
  BY DEF CreateJIT, IInv, TypeOK, At, AllSound, Sound, NameOK, Reserving, Local
<1>2. /\ PodsKept(s) /\ faults' \in 0..MaxFaults /\ runner' \in [Worker -> RunnerState]
      /\ pod' \in [Worker -> Phases] /\ UNCHANGED <<row, lock, k8s, jobRow>>
  BY <1>1 DEF TypeOK, PodsKept, CreateJIT, Fault, NoFault, RunnerState, Registered
<1>3. CASE Goto(s, "create")
  <2>1. PICK l : l = [sch[s] EXCEPT !.pc = "create"]
    OBVIOUS
  <2>2. /\ l \in Local /\ l.pc = "create" /\ l.view = sch[s].view /\ l.wrote = sch[s].wrote
        /\ l.live = sch[s].live /\ l.cur = w /\ l.slots = sch[s].slots
        /\ sch' = [sch EXCEPT ![s] = l]
    BY <1>1, <1>3, <2>1 DEF Local, PCs, Goto, Become
  <2>3. TypeOK'
    BY <1>1, <1>2, <2>2 DEF TypeOK
  <2>4. LockHeld'
    BY <1>1, <1>2, <2>2 DEF IInv, TypeOK, LockHeld, Live
  <2>5. Sound(sch[s]) /\ Reserving(l)
    BY <2>2 DEF IInv, AllSound, Reserving
  <2>6. Sound(l)'
    <3>1. NameOK(l)'
      BY <1>1, <1>2, <2>2, <2>5 DEF Sound, NameOK, Reserving
    <3>2. l.live => SeenOK(l)' /\ ViewOK(l)' /\ Capped(l.view)'
      BY <1>1, <1>2, <2>2, <2>5 DEF Sound, SeenOK, ViewOK, Capped, ActiveIn, Reserving
    <3> QED BY <3>1, <3>2 DEF Sound
  <2>7. \A t \in Scheduler : t # s => sch[t].view[l.cur] = "none"
    BY <1>1, <2>2 DEF IInv, Private
  <2> QED BY <1>2, <2>2, <2>3, <2>4, <2>6, <2>7, LocalStep
<1>4. CASE Provisioned(s, "failed", sch[s].slots, 0)
  BY <1>1, <1>2, <1>4, ProvisionedStep
<1>5. CASE Provisioned(s, "failed", sch[s].slots - 1, sch[s].tries)
  BY <1>1, <1>2, <1>5, ProvisionedStep
<1> QED BY <1>3, <1>4, <1>5 DEF CreateJIT

-----------------------------------------------------------------------------
(* Kubernetes, the runners and time.                                       *)

LEMMA EnvPreserves ==
  ASSUME IInv, NEW w \in Worker, Env(w) PROVE IInv'
<1> USE DEF Env, JobRecorded, PodStarts, PodFails, RunnerConnects, TakesJob, JobDone,
            PodSucceeds, NodeDown, Ages, Fault
<1>1. UNCHANGED <<row, lock, sch>>
  OBVIOUS
<1>2. pod' \in [Worker -> Phases] /\ pod \in [Worker -> Phases]
  BY DEF IInv, TypeOK
<1>3. \A v \in Worker : /\ pod[v] \in Over => pod'[v] \in Over
                        /\ pod[v] # "none" => pod'[v] # "none"
                        /\ pod[v] = "none" => pod'[v] = "none"
  BY <1>2
<1>4. runner' \in [Worker -> RunnerState]
  BY DEF IInv, TypeOK, RunnerState, Disconnected, Registered
<1>5. /\ killed' \subseteq Worker /\ down' \subseteq Worker /\ jobRow' \subseteq Worker
      /\ late' \subseteq Worker /\ age' \in [Worker -> 0..2] /\ faults' \in 0..MaxFaults
  BY DEF IInv, TypeOK
<1>6. TypeOK'
  BY <1>1, <1>2, <1>4, <1>5 DEF IInv, TypeOK
<1> HIDE DEF Env
<1>7. LockHeld' /\ CapRespected' /\ Private'
  BY <1>1 DEF IInv, LockHeld, CapRespected, Private, ActiveIn, Live, Reserving
<1>8. RowsOK'
  BY <1>1, <1>3 DEF IInv, RowsOK
<1>9. ASSUME NEW s \in Scheduler PROVE Sound(sch[s])'
  <2>1. Sound(sch[s]) /\ sch[s] \in Local
    BY DEF IInv, AllSound, TypeOK
  <2>2. NameOK(sch[s])'
    BY <1>1, <1>3, <2>1 DEF Sound, NameOK, Reserving
  <2>3. SeenOK(sch[s]) => SeenOK(sch[s])'
    BY <1>1, <1>3 DEF SeenOK
  <2>4. ViewOK(sch[s]) => ViewOK(sch[s])'
    BY <1>1, <1>3 DEF ViewOK, Reserving
  <2> QED BY <1>1, <2>1, <2>2, <2>3, <2>4 DEF Sound, Capped, ActiveIn
<1> QED BY <1>6, <1>7, <1>8, <1>9 DEF IInv, AllSound

-----------------------------------------------------------------------------
(* The start of an iteration.                                              *)

LEMMA IdleFacts == /\ Idle \in Local /\ Idle.pc = "idle" /\ Idle.live = FALSE
                   /\ \A w \in Worker : Idle.view[w] = "none"
BY DEF Idle, Local, PCs

LEMMA LockPreserves ==
  ASSUME IInv, NEW s \in Scheduler, Lock(s) PROVE IInv'
<1>1. PICK l : l = [Idle EXCEPT !.pc = "list", !.live = TRUE, !.view = row]
  OBVIOUS
<1>2. /\ l \in Local /\ l.pc = "list" /\ l.live = TRUE /\ l.view = row
      /\ sch' = [sch EXCEPT ![s] = l]
  BY <1>1, IdleFacts DEF Lock, Become, Local, PCs, IInv, TypeOK
<1>3. TypeOK'
  BY <1>2 DEF Lock, IInv, TypeOK
<1>4. \A t \in Scheduler : ~Live(t)
  BY DEF Lock, LockFree, IInv, LockHeld
<1>5. LockHeld'
  BY <1>2, <1>4 DEF Lock, LockHeld, Live, IInv, TypeOK
<1>6. Sound(l)'
  BY <1>2 DEF Sound, NameOK, SeenOK, ViewOK, Capped, Reserving, Lock, IInv, RowsOK,
     CapRespected, ActiveIn
<1>7. ~Reserving(l)
  BY <1>2 DEF Reserving
<1>8. RowsOK' /\ CapRespected'
  BY DEF Lock, IInv, RowsOK, CapRespected, ActiveIn
<1>9. ASSUME NEW t \in Scheduler, t # s PROVE Sound(sch[t])'
  <2>1. Sound(sch[t]) /\ sch'[t] = sch[t]
    BY <1>2, <1>9 DEF IInv, AllSound, TypeOK
  <2> QED BY <2>1, <1>4 DEF Lock, Sound, NameOK, Reserving, Live
<1>10. AllSound'
  BY <1>2, <1>6, <1>9 DEF AllSound, IInv, TypeOK
<1>11. ASSUME NEW a \in Scheduler, NEW b \in Scheduler, a # b, Reserving(sch'[a])
       PROVE  sch'[b].view[sch'[a].cur] = "none"
  <2>1. a # s /\ sch'[a] = sch[a] /\ Reserving(sch[a])
    BY <1>2, <1>7, <1>11 DEF IInv, TypeOK
  <2>2. row[sch[a].cur] = "none" /\ sch[b].view[sch[a].cur] = "none"
    BY <2>1, <1>11 DEF IInv, AllSound, Sound, NameOK, Private
  <2> QED BY <1>2, <2>1, <2>2 DEF IInv, TypeOK
<1>12. Private'
  BY <1>11 DEF Private, Reserving
<1> QED BY <1>3, <1>5, <1>8, <1>10, <1>12 DEF IInv

LEMMA ListPodsPreserves ==
  ASSUME IInv, NEW s \in Scheduler, ListPods(s) PROVE IInv'
<1>1. /\ TypeOK /\ sch[s] \in Local /\ sch[s].pc = "list" /\ ~Reserving(sch[s])
      /\ PodsKept(s) /\ faults' \in 0..MaxFaults /\ UNCHANGED <<row, lock, world>>
  BY DEF ListPods, IInv, TypeOK, At, Reserving, PodsKept, Fault, NoFault
<1>2. CASE LeaveSync(s)
  <2>1. \E l : SameTx(s, l) /\ l.pc = "match"
    BY <1>1, <1>2, LeaveSyncSameTx
  <2> QED BY <1>1, <2>1, SameTxStep DEF TypeOK
<1>3. CASE Become(s, [sch[s] EXCEPT !.pc = "read", !.seen = pod, !.stranded = down])
  <2>1. PICK l : l = [sch[s] EXCEPT !.pc = "read", !.seen = pod, !.stranded = down]
    OBVIOUS
  <2>2. /\ l \in Local /\ l.pc = "read" /\ l.seen = pod /\ l.view = sch[s].view
        /\ l.wrote = sch[s].wrote /\ l.live = sch[s].live /\ sch' = [sch EXCEPT ![s] = l]
    BY <1>1, <1>3, <2>1 DEF Become, Local, PCs, TypeOK
  <2>3. TypeOK' /\ LockHeld' /\ ~Reserving(l)
    BY <1>1, <2>2 DEF IInv, TypeOK, LockHeld, Live, Reserving
  <2>4. Sound(l)'
    <3>1. Sound(sch[s]) /\ RowsOK
      BY DEF IInv, AllSound
    <3>2. l.live => SeenOK(l)'
      BY <1>1, <2>2, <3>1 DEF SeenOK, RowsOK
    <3>3. l.live => ViewOK(l)' /\ Capped(l.view)'
      BY <1>1, <2>2, <2>3, <3>1 DEF Sound, ViewOK, Capped, ActiveIn
    <3>4. NameOK(l)'
      BY <2>2 DEF NameOK, Reserving
    <3> QED BY <3>2, <3>3, <3>4 DEF Sound
  <2> QED BY <1>1, <2>2, <2>3, <2>4, LocalStep
<1> QED BY <1>2, <1>3 DEF ListPods

(* The two phases decide from a listing older than the write: what they    *)
(* complete is over, and stays so.                                         *)
LEMMA ReflectedOK ==
  ASSUME IInv, NEW s \in Scheduler, At(s, "read"), Live(s)
  PROVE  /\ Reflected(s) \in [Worker -> Status]
         /\ \A w \in Worker :
              /\ Reflected(s)[w] = row[w] \/ <<row[w], Reflected(s)[w]>> \in Forward
              /\ Reflected(s)[w] = "completed" => pod[w] \in Over
              /\ Reflected(s)[w] \in Active => row[w] \in Active /\ pod[w] # "none"
              /\ row[w] = "none" => Reflected(s)[w] = "none"
<1>1. TypeOK /\ sch[s] \in Local /\ SeenOK(sch[s]) /\ RowsOK
  BY DEF IInv, TypeOK, AllSound, Sound, Live
<1> SUFFICES ASSUME NEW w \in Worker
             PROVE  LET r == PodPhaseSync(OrphanSweep(row[w], sch[s].seen[w]), sch[s].seen[w])
                    IN  /\ r \in Status
                        /\ r = row[w] \/ <<row[w], r>> \in Forward
                        /\ r = "completed" => pod[w] \in Over
                        /\ r \in Active => row[w] \in Active /\ pod[w] # "none"
                        /\ row[w] = "none" => r = "none"
  BY DEF Reflected
<1> DEFINE seen == sch[s].seen[w]
<1>2. /\ seen \in Phases /\ row[w] \in Status
      /\ seen \in Over => pod[w] \in Over
      /\ row[w] \in Active => seen # "none" /\ pod[w] # "none"
      /\ row[w] = "completed" => pod[w] \in Over
  BY <1>1 DEF TypeOK, Local, SeenOK, At, RowsOK
<1>3. CASE row[w] \in Active
  BY <1>2, <1>3 DEF PodPhaseSync, OrphanSweep, Forward
<1>4. CASE row[w] \notin Active
  BY <1>2, <1>4 DEF PodPhaseSync, OrphanSweep
<1> QED BY <1>3, <1>4

LEMMA SyncPodsPreserves ==
  ASSUME IInv, NEW s \in Scheduler, SyncPods(s) PROVE IInv'
<1>1. /\ TypeOK /\ sch[s] \in Local /\ sch[s].pc = "read" /\ ~Reserving(sch[s])
      /\ PodsKept(s) /\ UNCHANGED <<row, lock, world, faults>>
  BY DEF SyncPods, IInv, TypeOK, At, Reserving, PodsKept
<1>2. CASE ~Live(s)
  <2>1. \E l : SameTx(s, l) /\ l.pc = "match"
    BY <1>1, <1>2, LeaveSyncSameTx DEF SyncPods
  <2> QED BY <1>1, <2>1, SameTxStep DEF TypeOK
<1>3. CASE Live(s)
  <2> DEFINE todo == {w \in sch[s].stranded \intersect ActiveIn(Reflected(s)) :
                        sch[s].seen[w] \in Listed}
             wrote == {w \in Worker : Reflected(s)[w] # row[w]}
  <2>1. PICK l : l = [sch[s] EXCEPT !.pc = "nodes", !.stranded = {}, !.view = Reflected(s),
                                    !.wrote = wrote, !.todo = todo]
    OBVIOUS
  <2>2. /\ Reflected(s) \in [Worker -> Status] /\ todo \in SUBSET Worker
        /\ wrote \in SUBSET Worker
    BY <1>3, ReflectedOK DEF SyncPods, ActiveIn
  <2>3. sch' = [sch EXCEPT ![s] = l]
    BY <1>3, <2>1 DEF SyncPods, Become
  <2>4. /\ l \in Local /\ l.pc = "nodes" /\ l.view = Reflected(s) /\ l.wrote = wrote
        /\ l.live = sch[s].live
    <3> HIDE DEF todo, wrote
    <3> QED BY <1>1, <2>1, <2>2 DEF Local, PCs
  <2>5. TypeOK' /\ LockHeld' /\ ~Reserving(l)
    BY <1>1, <2>3, <2>4 DEF IInv, TypeOK, LockHeld, Live, Reserving
  <2>6. Sound(l)'
    <3>1. ViewOK(l)'
      BY <1>1, <1>3, <2>4, ReflectedOK DEF ViewOK, SyncPods
    <3>2. Capped(row)
      BY DEF IInv, CapRespected, Capped
    <3>3. ActiveIn(l.view) \subseteq ActiveIn(row)
      BY <1>3, <2>4, ReflectedOK DEF ActiveIn, SyncPods
    <3>4. Capped(l.view)
      BY <3>2, <3>3, FewerActive
    <3> QED BY <2>4, <2>5, <3>1, <3>4 DEF Sound, NameOK, SeenOK, Capped, ActiveIn
  <2>7. \A w \in Worker : sch[s].view[w] = "none" => l.view[w] = "none"
    <3> SUFFICES ASSUME NEW w \in Worker, sch[s].view[w] = "none" PROVE l.view[w] = "none"
      OBVIOUS
    <3>1. row[w] = "none"
      BY <1>3 DEF IInv, AllSound, Sound, ViewOK, Live, Forward
    <3> QED BY <1>3, <2>4, <3>1, ReflectedOK DEF SyncPods
  <2> QED BY <1>1, <2>3, <2>5, <2>6, <2>7, LocalStep
<1> QED BY <1>2, <1>3

(* reserveRunnerName: the name is free, and the cap leaves room for one.   *)
LEMMA ReserveRunnerNamePreserves ==
  ASSUME IInv, NEW s \in Scheduler, NEW w \in Worker, ReserveRunnerName(s, w) PROVE IInv'
<1>1. /\ TypeOK /\ sch[s] \in Local /\ sch[s].pc = "provision" /\ ~Reserving(sch[s])
      /\ PodsKept(s) /\ UNCHANGED <<row, lock, world, faults>> /\ Live(s)
      /\ sch[s].tries > 0 /\ sch[s].slots > 0
      /\ row[w] = "none" /\ pod[w] = "none" /\ \A t \in Scheduler : sch[t].view[w] = "none"
  BY DEF ReserveRunnerName, Pops, Fresh, IInv, TypeOK, At, Reserving, PodsKept
<1>2. PICK l : l = [sch[s] EXCEPT !.pc = "jit", !.cur = w, !.tries = @ - 1,
                                  !.view[w] = "pending", !.wrote = @ \union {w}]
  OBVIOUS
<1>3. sch' = [sch EXCEPT ![s] = l]
  BY <1>2, Zenon DEF ReserveRunnerName, Become
<1>4. /\ l \in Local /\ l.pc = "jit" /\ l.cur = w /\ l.slots = sch[s].slots
      /\ l.view = [sch[s].view EXCEPT ![w] = "pending"] /\ l.live = sch[s].live
      /\ l.wrote = sch[s].wrote \union {w}
  <2> DEFINE view == [sch[s].view EXCEPT ![w] = "pending"]
             wrote == sch[s].wrote \union {w}
             tries == sch[s].tries - 1
  <2>1. view \in [Worker -> Status] /\ wrote \in SUBSET Worker /\ tries \in 0..MaxDemand
    BY <1>1 DEF Local
  <2>2. l = [sch[s] EXCEPT !.pc = "jit", !.cur = w, !.tries = tries, !.view = view,
                           !.wrote = wrote]
    BY <1>1, <1>2, Zenon DEF Local
  <2>3. l.view = view /\ l.wrote = wrote
    BY <1>1, <2>2 DEF Local
  <2> HIDE DEF view, wrote, tries
  <2>4. l \in Local /\ l.pc = "jit" /\ l.cur = w /\ l.slots = sch[s].slots
        /\ l.live = sch[s].live
    BY <1>1, <2>1, <2>2 DEF Local, PCs
  <2> QED BY <2>3, <2>4 DEF view, wrote
<1>5. TypeOK' /\ LockHeld' /\ Reserving(l)
  BY <1>1, <1>3, <1>4 DEF IInv, TypeOK, LockHeld, Live, Reserving
<1>6. sch[s].view \in [Worker -> Status] /\ ViewOK(sch[s]) /\ Capped(sch[s].view)
  BY <1>1 DEF Local, IInv, AllSound, Sound, Live
<1>7. ViewOK(l)'
  BY <1>1, <1>4, <1>5, <1>6 DEF ViewOK, Forward
<1>8. Capped(l.view)'
  <2> DEFINE A == ActiveIn(sch[s].view)
  <2>1. IsFiniteSet(A) /\ w \notin A
    BY <1>1, FS_Subset DEF ActiveIn
  <2>2. ActiveIn(l.view) = A \union {w}
    BY <1>4, <1>6 DEF ActiveIn
  <2>3. Cardinality(A \union {w}) = Cardinality(A) + 1 /\ Cardinality(A) \in Nat
    BY <2>1, FS_AddElement, FS_CardinalityType
  <2>4. Cardinality(A) < MaxWorkers
    BY DEF ReserveRunnerName, Wanted, BelowCap
  <2> QED BY <2>2, <2>3, <2>4 DEF Capped, ActiveIn
<1>9. Sound(l)'
  BY <1>1, <1>4, <1>6, <1>7, <1>8 DEF Sound, NameOK, SeenOK, Reserving
<1>10. \A v \in Worker : sch[s].view[v] = "none" =>
          \/ l.view[v] = "none"
          \/ Reserving(l) /\ v = l.cur /\ \A t \in Scheduler : sch[t].view[v] = "none"
  BY <1>1, <1>4, <1>5, <1>6
<1>11. \A t \in Scheduler : t # s => sch[t].view[l.cur] = "none"
  BY <1>1, <1>4
<1> QED BY <1>1, <1>3, <1>5, <1>9, <1>10, <1>11, LocalStep

-----------------------------------------------------------------------------
(* The end of an iteration.                                                *)

(* A scheduler is idle again, and the lock is free if it held it: no other *)
(* transaction is touched.                                                 *)
LEMMA IdleStep ==
  ASSUME IInv, NEW s \in Scheduler, sch' = [sch EXCEPT ![s] = Idle], Release(s),
         row' = row, UNCHANGED world, faults' \in 0..MaxFaults
  PROVE  IInv'
<1>1. TypeOK'
  BY IdleFacts DEF IInv, TypeOK, Release
<1>2. LockHeld'
  BY IdleFacts DEF IInv, TypeOK, LockHeld, Live, Release
<1>3. Sound(Idle)' /\ ~Reserving(Idle)
  BY IdleFacts DEF Sound, NameOK, Reserving
<1>4. PodsKept(s)
  BY DEF PodsKept
<1> QED BY <1>1, <1>2, <1>3, <1>4, IdleFacts, LocalStep

LEMMA LoseTransactionPreserves ==
  ASSUME IInv, NEW s \in Scheduler, LoseTransaction(s) PROVE IInv'
<1>1. PICK l : l = [sch[s] EXCEPT !.live = FALSE]
  OBVIOUS
<1>2. sch[s] \in Local /\ Sound(sch[s])
  BY DEF IInv, TypeOK, AllSound
<1>3. /\ l \in Local /\ l.live = FALSE /\ l.pc = sch[s].pc /\ l.view = sch[s].view
      /\ l.cur = sch[s].cur /\ l.slots = sch[s].slots /\ sch' = [sch EXCEPT ![s] = l]
  BY <1>1, <1>2 DEF LoseTransaction, Become, Local
<1>4. TypeOK' /\ PodsKept(s)
  BY <1>3 DEF LoseTransaction, Fault, Release, IInv, TypeOK, PodsKept
<1>5. LockHeld'
  BY <1>3 DEF LoseTransaction, Release, IInv, TypeOK, LockHeld, Live
<1>6. Sound(l)'
  BY <1>2, <1>3 DEF LoseTransaction, Sound, NameOK, Reserving
<1>7. Reserving(l) => \A t \in Scheduler : t # s => sch[t].view[l.cur] = "none"
  BY <1>3 DEF IInv, Private, Reserving
<1> QED BY <1>3, <1>4, <1>5, <1>6, <1>7, LocalStep DEF LoseTransaction

(* The commit publishes the view: it agrees with the rows wherever the     *)
(* transaction wrote nothing, and moves the others forward.                *)
LEMMA CommitForward ==
  ASSUME IInv, NEW s \in Scheduler, Commit(s), NEW w \in Worker
  PROVE  /\ row'[w] = sch[s].view[w]
         /\ row'[w] # row[w] => <<row[w], row'[w]>> \in Forward
<1>1. ViewOK(sch[s])
  BY DEF Commit, IInv, AllSound, Sound, Live
<1> QED BY <1>1 DEF Commit, ViewOK

LEMMA CommitPreserves ==
  ASSUME IInv, NEW s \in Scheduler, Commit(s) PROVE IInv'
<1>1. /\ TypeOK /\ sch[s] \in Local /\ Sound(sch[s]) /\ sch[s].pc = "end" /\ Live(s)
      /\ sch' = [sch EXCEPT ![s] = Idle] /\ UNCHANGED <<world, faults>>
  BY DEF Commit, Become, IInv, TypeOK, AllSound, At
<1>2. row' \in [Worker -> Status] /\ \A w \in Worker : row'[w] = sch[s].view[w]
  <2>1. \A w \in Worker : row'[w] = sch[s].view[w]
    BY CommitForward
  <2> QED BY <1>1, <2>1 DEF Commit, Local, TypeOK
<1>3. TypeOK'
  BY <1>1, <1>2, IdleFacts DEF Commit, Release, TypeOK
<1>4. \A t \in Scheduler : t # s => ~Live(t) /\ sch'[t] = sch[t]
  BY <1>1 DEF IInv, LockHeld, TypeOK
<1>5. LockHeld'
  BY <1>1, <1>4, IdleFacts DEF LockHeld, Live, TypeOK
<1>6. RowsOK'
  BY <1>1, <1>2 DEF RowsOK, Sound, ViewOK, Live, Reserving
<1>7. CapRespected'
  <2>1. ActiveIn(row') = ActiveIn(sch[s].view)
    BY <1>2 DEF ActiveIn
  <2> QED BY <1>1, <2>1 DEF CapRespected, Sound, Capped, Live, ActiveIn
<1>8. AllSound'
  <2> SUFFICES ASSUME NEW t \in Scheduler PROVE Sound(sch[t])'
    BY DEF AllSound
  <2>1. CASE t = s
    BY <1>1, <2>1, IdleFacts DEF Sound, NameOK, Reserving, TypeOK
  <2>2. CASE t # s
    <3>1. Sound(sch[t])
      BY DEF IInv, AllSound
    <3>2. Reserving(sch[t]) => sch[s].view[sch[t].cur] = "none"
      BY <2>2 DEF IInv, Private
    <3> QED BY <1>1, <1>2, <1>4, <2>2, <3>1, <3>2 DEF Sound, NameOK, Reserving, Live
  <2> QED BY <2>1, <2>2
<1>9. ASSUME NEW a \in Scheduler, NEW b \in Scheduler, a # b, Reserving(sch'[a])
      PROVE  sch'[b].view[sch'[a].cur] = "none"
  <2>1. a # s /\ sch'[a] = sch[a]
    BY <1>1, <1>4, <1>9, IdleFacts DEF TypeOK, Reserving
  <2>2. sch[a].cur \in Worker /\ sch[b].view[sch[a].cur] = "none"
    BY <1>9, <2>1 DEF IInv, AllSound, Sound, NameOK, Private
  <2> QED BY <1>1, <1>4, <2>1, <2>2, IdleFacts DEF TypeOK
<1>10. Private'
  BY <1>9 DEF Private, Reserving
<1> QED BY <1>3, <1>5, <1>6, <1>7, <1>8, <1>10 DEF IInv

-----------------------------------------------------------------------------
(* The theorems.                                                           *)

LEMMA InitIInv == Init => IInv
<1> SUFFICES ASSUME Init PROVE IInv
  OBVIOUS
<1>1. TypeOK
  BY IdleFacts DEF Init, TypeOK, RunnerState
<1>2. AllSound /\ LockHeld /\ RowsOK /\ Private
  BY IdleFacts DEF Init, AllSound, Sound, NameOK, LockHeld, Live, RowsOK, Private, Reserving
<1>3. CapRespected
  <2>1. ActiveIn(row) = {}
    BY DEF Init, ActiveIn
  <2> QED BY <2>1, FS_EmptySet DEF CapRespected
<1> QED BY <1>1, <1>2, <1>3 DEF IInv

LEMMA SchedStepPreserves ==
  ASSUME IInv, NEW s \in Scheduler, SchedStep(s) PROVE IInv'
<1>1. CASE Rollback(s)
  BY <1>1, IdleStep DEF Rollback, Become, IInv, TypeOK
<1> QED BY <1>1, LockPreserves, ListPodsPreserves, SyncPodsPreserves,
           HealthChecksPreserves, FailAndCleanupPreserves, BeginCleanupPreserves,
           DeleteTerminalPodsPreserves, DemandMatchPreserves, SkipJobPreserves,
           CreateJITPreserves, CreatePodPreserves, EndMatchPreserves, CommitPreserves,
           UnreachableNodeCheckPreserves, KeepWorkerPreserves, GiveUpPreserves,
           GitHubCleanupPreserves, ReserveRunnerNamePreserves DEF SchedStep

LEMMA StepIInv == IInv /\ [Next]_vars => IInv'
<1> SUFFICES ASSUME IInv, [Next]_vars PROVE IInv'
  OBVIOUS
<1>1. ASSUME NEW w \in Worker, Env(w) PROVE IInv'
  BY <1>1, EnvPreserves
<1>2. ASSUME NEW s \in Scheduler, SchedStep(s) PROVE IInv'
  BY <1>2, SchedStepPreserves
<1>3. ASSUME NEW s \in Scheduler, Crash(s) PROVE IInv'
  <2>1. faults' \in 0..MaxFaults
    BY <1>3 DEF Crash, Fault, IInv, TypeOK
  <2>2. sch' = [sch EXCEPT ![s] = Idle] /\ Release(s) /\ row' = row /\ UNCHANGED world
    BY <1>3 DEF Crash, Become
  <2> QED BY <2>1, <2>2, IdleStep
<1>4. ASSUME NEW s \in Scheduler, LoseTransaction(s) PROVE IInv'
  BY <1>4, LoseTransactionPreserves
<1>5. CASE UNCHANGED vars
  <2> USE <1>5 DEF vars
  <2>1. TypeOK'
    BY DEF IInv, TypeOK
  <2>2. LockHeld' /\ RowsOK' /\ CapRespected' /\ Private'
    BY DEF IInv, LockHeld, RowsOK, CapRespected, Private, Live, ActiveIn, Reserving
  <2>3. ASSUME NEW s \in Scheduler PROVE Sound(sch[s])'
    <3>1. Sound(sch[s])
      BY DEF IInv, AllSound
    <3>2. NameOK(sch[s]) => NameOK(sch[s])'
      BY DEF NameOK, Reserving
    <3>3. (SeenOK(sch[s]) => SeenOK(sch[s])') /\ (ViewOK(sch[s]) => ViewOK(sch[s])')
      BY DEF SeenOK, ViewOK, Reserving
    <3> QED BY <3>1, <3>2, <3>3 DEF Sound, Capped, ActiveIn
  <2> QED BY <2>1, <2>2, <2>3 DEF IInv, AllSound
<1> QED BY <1>1, <1>2, <1>3, <1>4, <1>5 DEF Next

THEOREM Inductive == Spec => []IInv
BY InitIInv, StepIInv, PTL DEF Spec

(* TypeOK: among others, demandMatch never counts a slot below zero.       *)
THEOREM TypeCorrect == Spec => []TypeOK
<1>1. IInv => TypeOK
  BY DEF IInv
<1> QED BY <1>1, Inductive, PTL

(* OrphanSweep and PodPhaseSync write from a listing that is stale, beside *)
(* schedulers whose transaction died: still no worker is recorded          *)
(* completed while its pod holds a slot.                                   *)
THEOREM CompletedMeansOver == Spec => []LiveWorkerNotCompleted
<1>1. IInv => LiveWorkerNotCompleted
  BY DEF IInv, RowsOK, LiveWorkerNotCompleted
<1> QED BY <1>1, Inductive, PTL

(* GetTotalWorkersForEntity is read inside the transaction that inserts,   *)
(* so the cap holds whatever is lost.                                      *)
THEOREM CapHolds == Spec => []CapRespected
<1>1. IInv => CapRespected
  BY DEF IInv
<1> QED BY <1>1, Inductive, PTL

(* Only a commit changes a row, and it moves it forward.                   *)
THEOREM RowsMoveForward == Spec => RowsForwardOnly
<1>1. IInv /\ [Next]_vars =>
        [\A w \in Worker : row'[w] # row[w] => <<row[w], row'[w]>> \in Forward]_row
  <2> SUFFICES ASSUME IInv, [Next]_vars, row' # row
               PROVE  \A w \in Worker : row'[w] # row[w] => <<row[w], row'[w]>> \in Forward
    OBVIOUS
  <2>1. PICK s \in Scheduler : Commit(s)
    <3>1. \A w \in Worker : Env(w) => row' = row
      BY DEF Env, JobRecorded, PodStarts, PodFails, RunnerConnects, TakesJob, JobDone,
         PodSucceeds, NodeDown, Ages
    <3>2. \A s \in Scheduler : Crash(s) \/ LoseTransaction(s) => row' = row
      BY DEF Crash, LoseTransaction
    <3>3. ASSUME NEW s \in Scheduler, SchedStep(s) PROVE Commit(s) \/ row' = row
      <4>1. Lock(s) \/ ListPods(s) \/ SyncPods(s) \/ HealthChecks(s) => row' = row
        BY DEF Lock, ListPods, SyncPods, HealthChecks
      <4>2. FailAndCleanup(s) \/ BeginCleanup(s) \/ DeleteTerminalPods(s) => row' = row
        BY DEF FailAndCleanup, BeginCleanup, DeleteTerminalPods
      <4>3. DemandMatch(s) \/ SkipJob(s) \/ EndMatch(s) \/ Rollback(s) => row' = row
        BY DEF DemandMatch, SkipJob, EndMatch, Rollback
      <4>4. CreateJIT(s) \/ CreatePod(s) => row' = row
        BY DEF CreateJIT, CreatePod
      <4>5. \A w \in Worker : UnreachableNodeCheck(s, w) \/ KeepWorker(s, w) => row' = row
        BY DEF UnreachableNodeCheck, KeepWorker
      <4>6. \A w \in Worker : GiveUp(s, w) \/ GitHubCleanup(s, w) => row' = row
        BY DEF GiveUp, GitHubCleanup
      <4>7. \A w \in Worker : ReserveRunnerName(s, w) => row' = row
        BY DEF ReserveRunnerName
      <4> QED BY <3>3, <4>1, <4>2, <4>3, <4>4, <4>5, <4>6, <4>7 DEF SchedStep
    <3> QED BY <3>1, <3>2, <3>3 DEF Next, vars
  <2> QED BY <2>1, CommitForward
<1> QED BY <1>1, Inductive, PTL DEF Spec, RowsForwardOnly

-----------------------------------------------------------------------------
(* The pool's slots.  An iteration that has lost the lock may still create *)
(* the one pod whose name it holds (a stray); whoever holds the lock has   *)
(* counted only pods that exist.  Each lost connection makes one stray at  *)
(* most, and nothing else makes any.                                       *)

Provisioning(l) == l.pc \in {"provision", "jit", "create"}

Losses == IF "conn" \in Faults THEN faults ELSE 0

Strays == {w \in Worker : \E s \in Scheduler :
             lock # s /\ Reserving(sch[s]) /\ sch[s].cur = w}

Promised == OccupyingPods \union Strays

SlotsOK ==
  /\ Cardinality(Strays) <= Losses
  /\ Cardinality(Promised) <= Slots + Losses
  /\ \A s \in Scheduler : lock = s /\ Provisioning(sch[s]) =>
       Cardinality(Promised) + sch[s].slots <= Slots + Losses

LEMMA PromisedFinite ==
  /\ \A S \in SUBSET Worker : IsFiniteSet(S) /\ Cardinality(S) \in Nat
  /\ \A T \in SUBSET Worker : \A S \in SUBSET T : Cardinality(S) <= Cardinality(T)
  /\ \A S \in SUBSET Worker : \A w \in Worker :
       Cardinality(S \union {w}) <= Cardinality(S) + 1
  /\ OccupyingPods \in SUBSET Worker /\ Strays \in SUBSET Worker
  /\ Promised \in SUBSET Worker
<1>1. \A S \in SUBSET Worker : IsFiniteSet(S) /\ Cardinality(S) \in Nat
  BY FS_Subset, FS_CardinalityType
<1>2. \A T \in SUBSET Worker : \A S \in SUBSET T : Cardinality(S) <= Cardinality(T)
  BY <1>1, FS_Subset
<1>3. ASSUME NEW S \in SUBSET Worker, NEW w \in Worker
      PROVE  Cardinality(S \union {w}) <= Cardinality(S) + 1
  <2>1. CASE w \in S
    <3>1. S \union {w} = S
      BY <2>1
    <3> QED BY <1>1, <3>1
  <2>2. CASE w \notin S
    BY <1>1, <2>2, FS_AddElement
  <2> QED BY <2>1, <2>2
<1> QED BY <1>1, <1>2, <1>3 DEF OccupyingPods, Strays, Promised

LEMMA OneMorePod ==
  ASSUME NEW S \in SUBSET Worker, NEW T \in SUBSET Worker, NEW w \in Worker,
         T \subseteq S \union {w}
  PROVE  Cardinality(T) <= Cardinality(S) + 1
<1>1. S \union {w} \in SUBSET Worker
  OBVIOUS
<1>2. /\ Cardinality(T) <= Cardinality(S \union {w})
      /\ Cardinality(S \union {w}) <= Cardinality(S) + 1
      /\ Cardinality(T) \in Nat /\ Cardinality(S) \in Nat
      /\ Cardinality(S \union {w}) \in Nat
  BY <1>1, PromisedFinite
<1> QED BY <1>2

LEMMA LossesType ==
  ASSUME TypeOK, TypeOK', faults' >= faults
  PROVE  Losses \in Nat /\ Losses' \in Nat /\ Losses <= Losses' /\ Slots \in Nat
BY DEF TypeOK, Losses

(* A step of scheduler s that makes no pod and no stray, and starts no     *)
(* visit to the pool.                                                      *)
LEMMA SlotsKept ==
  ASSUME IInv, IInv', SlotsOK, NEW s \in Scheduler, NEW l,
         sch' = [sch EXCEPT ![s] = l], faults' >= faults,
         OccupyingPods' \subseteq OccupyingPods,
         \A t \in Scheduler : t # s => (lock' = t <=> lock = t),
         Reserving(l) => \/ lock' = s
                         \/ lock # s /\ Reserving(sch[s]) /\ l.cur = sch[s].cur,
         lock' = s /\ Provisioning(l) =>
           lock = s /\ Provisioning(sch[s]) /\ l.slots <= sch[s].slots
  PROVE  SlotsOK'
<1>1. /\ sch'[s] = l /\ l \in Local /\ \A t \in Scheduler : sch[t] \in Local
      /\ \A t \in Scheduler : t # s => sch'[t] = sch[t]
  BY DEF IInv, TypeOK
<1>2. Strays' \subseteq Strays
  BY <1>1 DEF Strays, Reserving
<1>3. Promised' \subseteq Promised
  BY <1>2 DEF Promised
<1>4. /\ Cardinality(Strays') <= Cardinality(Strays)
      /\ Cardinality(Promised') <= Cardinality(Promised)
      /\ Cardinality(Strays') \in Nat /\ Cardinality(Strays) \in Nat
      /\ Cardinality(Promised') \in Nat /\ Cardinality(Promised) \in Nat
  BY <1>2, <1>3, PromisedFinite
<1>5. Losses \in Nat /\ Losses' \in Nat /\ Losses <= Losses' /\ Slots \in Nat
  BY LossesType DEF IInv
<1>6. ASSUME NEW t \in Scheduler, lock' = t, Provisioning(sch'[t])
      PROVE  /\ lock = t /\ Provisioning(sch[t])
             /\ sch'[t].slots <= sch[t].slots /\ sch'[t].slots \in Nat /\ sch[t].slots \in Nat
  <2>1. sch'[t].slots \in Nat /\ sch[t].slots \in Nat
    BY <1>1 DEF Local
  <2> QED BY <1>1, <1>6, <2>1
<1>7. ASSUME NEW t \in Scheduler, lock' = t, Provisioning(sch'[t])
      PROVE  Cardinality(Promised') + sch'[t].slots <= Slots + Losses'
  <2>1. Cardinality(Promised) + sch[t].slots <= Slots + Losses
    BY <1>6, <1>7 DEF SlotsOK
  <2> QED BY <1>4, <1>5, <1>6, <1>7, <2>1
<1>8. Cardinality(Strays') <= Losses' /\ Cardinality(Promised') <= Slots + Losses'
  BY <1>4, <1>5 DEF SlotsOK
<1>9. \A t \in Scheduler : lock' = t /\ Provisioning(sch[t])' =>
        Cardinality(Promised') + sch'[t].slots <= Slots + Losses'
  BY <1>7 DEF Provisioning
<1> QED BY <1>8, <1>9 DEF SlotsOK

(* Pods hold on to their slots or give them up; only a create call takes   *)
(* one.                                                                    *)
LEMMA SlotsFreed ==
  ASSUME TypeOK, NEW s \in Scheduler,
         \/ pod' = pod
         \/ \E S \in SUBSET Worker : RemovePods(S)
  PROVE  OccupyingPods' \subseteq OccupyingPods
BY DEF OccupyingPods, RemovePods, TypeOK

(* The steps outside of provisioning.                                      *)
LEMMA OutsideKeepsSlots ==
  ASSUME IInv, IInv', SlotsOK, NEW s \in Scheduler, NEW l,
         sch' = [sch EXCEPT ![s] = l], ~Provisioning(l), faults' >= faults,
         \A t \in Scheduler : t # s => (lock' = t <=> lock = t),
         \/ pod' = pod
         \/ \E S \in SUBSET Worker : RemovePods(S)
  PROVE  SlotsOK'
<1>1. OccupyingPods' \subseteq OccupyingPods
  BY SlotsFreed DEF IInv
<1>2. ~Reserving(l)
  BY DEF Reserving, Provisioning
<1> QED BY <1>1, <1>2, SlotsKept

LEMMA SyncKeepsSlots ==
  ASSUME IInv, IInv', SlotsOK, NEW s \in Scheduler,
         \/ Lock(s) \/ ListPods(s) \/ SyncPods(s) \/ HealthChecks(s) \/ FailAndCleanup(s)
         \/ BeginCleanup(s) \/ DeleteTerminalPods(s) \/ EndMatch(s) \/ Commit(s)
         \/ Rollback(s) \/ Crash(s)
         \/ \E w \in Worker : \/ UnreachableNodeCheck(s, w) \/ KeepWorker(s, w)
                              \/ GiveUp(s, w) \/ GitHubCleanup(s, w)
  PROVE  SlotsOK'
<1>0. /\ sch[s] \in Local /\ faults \in Nat
  BY DEF IInv, TypeOK
<1>1. faults' >= faults
  <2>1. (\E kind : Fault(kind)) \/ NoFault => faults' >= faults
    BY <1>0 DEF Fault, NoFault
  <2>2. CASE Lock(s) \/ ListPods(s) \/ SyncPods(s) \/ DeleteTerminalPods(s) \/ EndMatch(s)
             \/ Commit(s) \/ Rollback(s)
    BY <1>0, <2>1, <2>2 DEF Lock, ListPods, SyncPods, DeleteTerminalPods, EndMatch, Commit, Rollback
  <2>3. CASE HealthChecks(s) \/ FailAndCleanup(s) \/ BeginCleanup(s) \/ Crash(s)
    BY <2>1, <2>3, Zenon DEF HealthChecks, FailAndCleanup, KillPod, BeginCleanup, Crash
  <2>4. ASSUME NEW w \in Worker, UnreachableNodeCheck(s, w) \/ KeepWorker(s, w)
        PROVE  faults' >= faults
    <3>1. NoFault \/ (\E kind : Fault(kind)) \/ faults' = faults
      BY <2>4, Zenon DEF UnreachableNodeCheck, ForceDelete, KeepWorker
    <3> QED BY <1>0, <2>1, <3>1
  <2>5. ASSUME NEW w \in Worker, GiveUp(s, w) \/ GitHubCleanup(s, w)
        PROVE  faults' >= faults
    BY <2>1, <2>5, Zenon DEF GiveUp, GitHubCleanup
  <2> QED BY <2>2, <2>3, <2>4, <2>5
<1>2. \A t \in Scheduler : t # s => (lock' = t <=> lock = t)
  BY DEF Lock, LockFree, ListPods, SyncPods, HealthChecks, FailAndCleanup, BeginCleanup,
     DeleteTerminalPods, EndMatch, Commit, Rollback, Crash, UnreachableNodeCheck,
     KeepWorker, GiveUp, GitHubCleanup, Release
<1>3. \/ pod' = pod
      \/ \E S \in SUBSET Worker : RemovePods(S)
  BY DEF Lock, ListPods, SyncPods, HealthChecks, FailAndCleanup, BeginCleanup,
     DeleteTerminalPods, EndMatch, Commit, Rollback, Crash, UnreachableNodeCheck, ForceDelete,
     KeepWorker, GiveUp, GitHubCleanup
<1>4. \E l : sch' = [sch EXCEPT ![s] = l] /\ ~Provisioning(l)
  <2> DEFINE Out == \E l : sch' = [sch EXCEPT ![s] = l] /\ ~Provisioning(l)
  <2>0. \A l : Become(s, l) /\ ~Provisioning(l) => Out
    BY DEF Become
  <2>1. LeaveSync(s) => Out
    <3>1. LeaveSync(s) => \E l : SameTx(s, l) /\ l.pc = "match"
      BY LeaveSyncSameTx DEF IInv
    <3> QED BY <3>1 DEF SameTx, Provisioning
  <2>2. Become(s, Idle) => Out
    BY <2>0, IdleFacts DEF Provisioning
  <2> SUFFICES Out
    OBVIOUS
  <2> HIDE DEF Out
  <2>3. CASE Commit(s) \/ Rollback(s) \/ Crash(s)
    BY <2>2, <2>3 DEF Commit, Rollback, Crash
  <2>4. CASE Lock(s)
    <3>1. [Idle EXCEPT !.pc = "list", !.live = TRUE, !.view = row].pc = "list"
      BY DEF Idle
    <3> QED BY <2>0, <2>4, <3>1, Zenon DEF Lock, Provisioning
  <2>5. CASE ListPods(s)
    BY <1>0, <2>0, <2>1, <2>5 DEF ListPods, Provisioning, Local
  <2>6. CASE SyncPods(s)
    BY <1>0, <2>0, <2>1, <2>6 DEF SyncPods, Provisioning, Local
  <2>7. CASE HealthChecks(s)
    BY <1>0, <2>0, <2>1, <2>7 DEF HealthChecks, Provisioning, Local
  <2>8. CASE FailAndCleanup(s)
    BY <1>0, <2>0, <2>8 DEF FailAndCleanup, Provisioning, Local
  <2>9. CASE BeginCleanup(s)
    BY <1>0, <2>0, <2>1, <2>9 DEF BeginCleanup, Provisioning, Local
  <2>10. CASE DeleteTerminalPods(s)
    BY <2>1, <2>10 DEF DeleteTerminalPods
  <2>11. CASE EndMatch(s)
    BY <1>0, <2>0, <2>11 DEF EndMatch, Goto, Provisioning, Local
  <2>12. ASSUME NEW w \in Worker, UnreachableNodeCheck(s, w) PROVE Out
    BY <1>0, <2>0, <2>12 DEF UnreachableNodeCheck, At, Provisioning, Local
  <2>13. ASSUME NEW w \in Worker, KeepWorker(s, w) PROVE Out
    BY <1>0, <2>0, <2>13 DEF KeepWorker, At, Provisioning, Local
  <2>14. ASSUME NEW w \in Worker, GiveUp(s, w) PROVE Out
    BY <1>0, <2>0, <2>14 DEF GiveUp, At, Provisioning, Local
  <2>15. ASSUME NEW w \in Worker, GitHubCleanup(s, w) PROVE Out
    BY <1>0, <2>0, <2>15 DEF GitHubCleanup, At, Provisioning, Local
  <2> QED
    BY <2>3, <2>4, <2>5, <2>6, <2>7, <2>8, <2>9, <2>10, <2>11, <2>12, <2>13, <2>14, <2>15
<1> QED BY <1>1, <1>2, <1>3, <1>4, OutsideKeepsSlots

(* The steps of provisioning.                                              *)

(* A step that keeps a reserved name, or gives it up, and no slot comes    *)
(* back.                                                                   *)
LEMMA ProvisionedKeepsSlots ==
  ASSUME IInv, IInv', SlotsOK, NEW s \in Scheduler, NEW status, NEW slots, NEW tries,
         Provisioned(s, status, slots, tries), Provisioning(sch[s]), slots <= sch[s].slots,
         faults' >= faults, pod' = pod, lock' = lock
  PROVE  SlotsOK'
<1>1. PICK l : /\ sch' = [sch EXCEPT ![s] = l]
               /\ l = [sch[s] EXCEPT !.pc = "provision", !.cur = NoOne, !.slots = slots,
                         !.tries = tries, !.view = Marked(s, sch[s].cur, status).view,
                         !.wrote = Marked(s, sch[s].cur, status).wrote]
  BY Zenon DEF Provisioned, Become
<1>2. sch[s] \in Local
  BY DEF IInv, TypeOK
<1>3. l.pc = "provision" /\ l.slots = slots
  <2> HIDE DEF Marked
  <2> QED BY <1>1, <1>2 DEF Local
<1>4. OccupyingPods' \subseteq OccupyingPods /\ ~Reserving(l)
  BY <1>3 DEF OccupyingPods, Reserving
<1> QED BY <1>1, <1>3, <1>4, SlotsKept

(* A step that takes no more than the slots it may take.                   *)
LEMMA ReserveKeepsSlots ==
  ASSUME IInv, IInv', SlotsOK, NEW s \in Scheduler, NEW w \in Worker, ReserveRunnerName(s, w)
  PROVE  SlotsOK'
<1>1. PICK l : /\ sch' = [sch EXCEPT ![s] = l]
               /\ l = [sch[s] EXCEPT !.pc = "jit", !.cur = w, !.tries = @ - 1,
                                     !.view[w] = "pending", !.wrote = @ \union {w}]
  BY Zenon DEF ReserveRunnerName, Become
<1>2. sch[s] \in Local /\ sch[s].pc = "provision" /\ lock = s
  BY DEF IInv, TypeOK, ReserveRunnerName, Pops, At, LockHeld
<1>3. l.slots = sch[s].slots
  BY <1>1, <1>2 DEF Local
<1>4. UNCHANGED <<row, lock, world, faults>> /\ faults \in Nat
  BY DEF ReserveRunnerName, IInv, TypeOK
<1>5. OccupyingPods' \subseteq OccupyingPods /\ faults' >= faults
  BY <1>4 DEF OccupyingPods
<1>6. Provisioning(sch[s]) /\ sch[s].slots <= sch[s].slots
  BY <1>2 DEF Provisioning, Local
<1> QED BY <1>1, <1>2, <1>3, <1>4, <1>5, <1>6, SlotsKept

LEMMA ProvisionKeepsSlots ==
  ASSUME IInv, IInv', SlotsOK, NEW s \in Scheduler, SkipJob(s) \/ CreateJIT(s)
  PROVE  SlotsOK'
<1>1. /\ sch[s] \in Local /\ faults \in Nat /\ Provisioning(sch[s]) /\ pod' = pod
      /\ lock' = lock /\ sch[s].slots \in Nat /\ sch[s].slots <= sch[s].slots
  BY DEF IInv, TypeOK, Local, SkipJob, Pops, CreateJIT, At, Provisioning
<1>2. OccupyingPods' \subseteq OccupyingPods
  BY <1>1 DEF OccupyingPods
<1>3. CASE SkipJob(s)
  <2>1. PICK l : /\ sch' = [sch EXCEPT ![s] = l] /\ l = [sch[s] EXCEPT !.tries = @ - 1]
    BY <1>3, Zenon DEF SkipJob, Become
  <2>2. l.slots = sch[s].slots /\ l.pc = sch[s].pc /\ l.cur = sch[s].cur
    BY <1>1, <2>1 DEF Local
  <2>3. ~Reserving(l) /\ faults' >= faults
    BY <1>1, <1>3, <2>2 DEF SkipJob, Pops, At, Reserving
  <2> QED BY <1>1, <1>2, <2>1, <2>2, <2>3, SlotsKept
<1>4. CASE CreateJIT(s) /\ Goto(s, "create") /\ NoFault
  <2>1. PICK l : /\ sch' = [sch EXCEPT ![s] = l] /\ l = [sch[s] EXCEPT !.pc = "create"]
    BY <1>4, Zenon DEF Goto, Become
  <2>2. l.slots = sch[s].slots /\ l.cur = sch[s].cur
    BY <1>1, <2>1 DEF Local
  <2>3. Reserving(sch[s]) /\ faults' >= faults
    BY <1>1, <1>4 DEF CreateJIT, At, Reserving, NoFault
  <2> QED BY <1>1, <1>2, <2>1, <2>2, <2>3, SlotsKept
<1>5. CASE \/ Fault("limit") /\ Provisioned(s, "failed", sch[s].slots, 0)
           \/ Fault("jit") /\ Provisioned(s, "failed", sch[s].slots - 1, sch[s].tries)
  <2>1. faults' >= faults /\ sch[s].slots - 1 <= sch[s].slots
    BY <1>1, <1>5 DEF Fault
  <2> QED BY <1>1, <1>5, <2>1, ProvisionedKeepsSlots
<1> QED BY <1>3, <1>4, <1>5 DEF CreateJIT

(* Every new visit to the pool counts the pods that exist; the strays that *)
(* do not exist yet are among the losses.                                  *)
LEMMA DemandMatchKeepsSlots ==
  ASSUME IInv, IInv', SlotsOK, NEW s \in Scheduler, DemandMatch(s)
  PROVE  SlotsOK'
<1>1. /\ sch[s] \in Local /\ faults \in Nat /\ pod' = pod /\ lock' = lock /\ faults' = faults
      /\ faults' >= faults
  <2>1. sch[s] \in Local /\ faults \in Nat
    BY DEF IInv, TypeOK
  <2>2. pod' = pod /\ lock' = lock /\ faults' = faults
    BY Zenon DEF DemandMatch
  <2> QED BY <2>1, <2>2
<1>2. CASE ~Live(s)
  <2>1. PICK l : /\ sch' = [sch EXCEPT ![s] = l] /\ l = [sch[s] EXCEPT !.pc = "end"]
    BY <1>2, Zenon DEF DemandMatch, Goto, Become
  <2>2. ~Provisioning(l)
    BY <1>1, <2>1 DEF Local, Provisioning
  <2> QED BY <1>1, <2>1, <2>2, OutsideKeepsSlots
<1>3. CASE Live(s)
  <2>1. PICK l : /\ sch' = [sch EXCEPT ![s] = l] /\ l.pc = "provision" /\ l.slots = Available
    <3>1. PICK n : Become(s, [sch[s] EXCEPT !.pc = "provision", !.slots = Available, !.tries = n])
      BY <1>3, Zenon DEF DemandMatch
    <3>2. LET l == [sch[s] EXCEPT !.pc = "provision", !.slots = Available, !.tries = n]
          IN  l.pc = "provision" /\ l.slots = Available
      <4> HIDE DEF Available
      <4> QED BY <1>1 DEF Local
    <3> QED BY <3>1, <3>2, Zenon DEF Become
  <2>2. lock = s
    BY <1>3 DEF IInv, LockHeld
  <2>3. /\ sch'[s] = l /\ \A t \in Scheduler : t # s => sch'[t] = sch[t]
    BY <2>1 DEF IInv, TypeOK
  <2>4. Strays' = Strays /\ OccupyingPods' = OccupyingPods /\ Losses' = Losses
    BY <1>1, <2>2, <2>3 DEF Strays, OccupyingPods, Losses
  <2>5. Promised' = Promised
    BY <2>4 DEF Promised
  <2>6. /\ Cardinality(Promised) <= Cardinality(OccupyingPods) + Cardinality(Strays)
        /\ Cardinality(Promised) \in Nat /\ Cardinality(OccupyingPods) \in Nat
        /\ Cardinality(Strays) \in Nat
    <3>1. /\ IsFiniteSet(OccupyingPods) /\ IsFiniteSet(Strays)
          /\ Cardinality(OccupyingPods \intersect Strays) \in Nat
      BY PromisedFinite
    <3>2. Cardinality(OccupyingPods \union Strays)
            = Cardinality(OccupyingPods) + Cardinality(Strays)
                - Cardinality(OccupyingPods \intersect Strays)
      BY <3>1, FS_Union
    <3>3. Cardinality(OccupyingPods) \in Nat /\ Cardinality(Strays) \in Nat
          /\ Cardinality(Promised) \in Nat
      BY PromisedFinite
    <3> QED BY <3>1, <3>2, <3>3 DEF Promised
  <2>7. Losses \in Nat /\ Slots \in Nat
    BY <1>1 DEF Losses
  <2>8. Cardinality(Promised) + Available <= Slots + Losses
    BY <2>6, <2>7 DEF SlotsOK, Available
  <2>9. \A t \in Scheduler : lock' = t => t = s
    BY <1>1, <2>2
  <2> QED BY <2>1, <2>3, <2>4, <2>5, <2>8, <2>9 DEF SlotsOK
<1> QED BY <1>2, <1>3

(* The create call turns the name in hand into a pod: the holder of the    *)
(* lock pays for it with a slot, and a stray was counted already.          *)
LEMMA CreatePodKeepsSlots ==
  ASSUME IInv, IInv', SlotsOK, NEW s \in Scheduler, CreatePod(s)
  PROVE  SlotsOK'
<1>1. /\ sch[s] \in Local /\ faults \in Nat /\ Reserving(sch[s]) /\ Provisioning(sch[s])
      /\ sch[s].cur \in Worker /\ sch[s].slots \in Nat /\ sch[s].slots > 0
      /\ lock' = lock /\ pod \in [Worker -> Phases]
  BY DEF IInv, TypeOK, Local, CreatePod, At, Reserving, Provisioning, AllSound, Sound, NameOK
<1>2. faults' >= faults /\ faults' \in Nat
  BY <1>1 DEF CreatePod, Fault, NoFault
<1>3. OccupyingPods' \subseteq OccupyingPods \union {sch[s].cur}
  BY <1>1 DEF CreatePod, OccupyingPods
<1>4. PICK l : /\ sch' = [sch EXCEPT ![s] = l] /\ l.pc = "provision"
               /\ l.slots = sch[s].slots - 1
  <2>1. PICK status : Provisioned(s, status, sch[s].slots - 1, sch[s].tries)
    BY Zenon DEF CreatePod
  <2>2. PICK l : /\ sch' = [sch EXCEPT ![s] = l]
                 /\ l = [sch[s] EXCEPT !.pc = "provision", !.cur = NoOne,
                           !.slots = sch[s].slots - 1, !.tries = sch[s].tries,
                           !.view = Marked(s, sch[s].cur, status).view,
                           !.wrote = Marked(s, sch[s].cur, status).wrote]
    BY <2>1, Zenon DEF Provisioned, Become
  <2>3. l.pc = "provision" /\ l.slots = sch[s].slots - 1
    BY <1>1, <2>2 DEF Local
  <2> QED BY <2>2, <2>3
<1>5. /\ sch'[s] = l /\ \A t \in Scheduler : t # s => sch'[t] = sch[t]
  BY <1>4 DEF IInv, TypeOK
<1>6. Strays' \subseteq Strays
  BY <1>1, <1>4, <1>5 DEF Strays, Reserving
<1>7. /\ Losses \in Nat /\ Losses' \in Nat /\ Losses <= Losses' /\ Slots \in Nat
  BY <1>1, <1>2 DEF Losses
<1>8. /\ Cardinality(Strays') <= Cardinality(Strays)
      /\ Cardinality(Strays) \in Nat /\ Cardinality(Strays') \in Nat
      /\ Cardinality(Promised) \in Nat /\ Cardinality(Promised') \in Nat
      /\ Promised \in SUBSET Worker /\ Promised' \in SUBSET Worker
  <2>1. Promised' \in SUBSET Worker
    BY DEF Promised, OccupyingPods, Strays
  <2> QED BY <1>6, <2>1, PromisedFinite
<1>9. CASE lock = s
  <2>1. Promised' \subseteq Promised \union {sch[s].cur}
    BY <1>3, <1>6 DEF Promised
  <2>2. Cardinality(Promised') <= Cardinality(Promised) + 1
    BY <1>1, <1>8, <2>1, OneMorePod
  <2>3. Cardinality(Promised) + sch[s].slots <= Slots + Losses
    BY <1>1, <1>9 DEF SlotsOK
  <2>4. /\ Cardinality(Promised') + l.slots <= Slots + Losses'
        /\ Cardinality(Promised') <= Slots + Losses'
    BY <1>1, <1>4, <1>7, <1>8, <2>2, <2>3
  <2>5. \A t \in Scheduler : lock' = t => t = s
    BY <1>1, <1>9
  <2>6. Cardinality(Strays') <= Losses'
    BY <1>7, <1>8 DEF SlotsOK
  <2> QED BY <1>5, <2>4, <2>5, <2>6 DEF SlotsOK
<1>10. CASE lock # s
  <2>1. sch[s].cur \in Strays
    BY <1>1, <1>10 DEF Strays
  <2>2. Promised' \subseteq Promised
    BY <1>3, <1>6, <2>1 DEF Promised
  <2>3. Cardinality(Promised') <= Cardinality(Promised)
    BY <1>8, <2>2, PromisedFinite
  <2>4. Cardinality(Strays') <= Losses' /\ Cardinality(Promised') <= Slots + Losses'
    BY <1>7, <1>8, <2>3 DEF SlotsOK
  <2>5. ASSUME NEW t \in Scheduler, lock' = t, Provisioning(sch'[t])
        PROVE  Cardinality(Promised') + sch'[t].slots <= Slots + Losses'
    <3>1. t # s /\ lock = t /\ sch'[t] = sch[t]
      BY <1>1, <1>5, <1>10, <2>5
    <3>2. sch[t].slots \in Nat
      BY DEF IInv, TypeOK, Local
    <3>3. Cardinality(Promised) + sch[t].slots <= Slots + Losses
      BY <2>5, <3>1 DEF SlotsOK
    <3> QED BY <1>7, <1>8, <2>3, <3>1, <3>2, <3>3
  <2>6. \A t \in Scheduler : lock' = t /\ Provisioning(sch[t])' =>
          Cardinality(Promised') + sch'[t].slots <= Slots + Losses'
    BY <2>5 DEF Provisioning
  <2> QED BY <2>4, <2>6 DEF SlotsOK
<1> QED BY <1>9, <1>10

(* A lost connection makes at most the one name in hand a stray.           *)
LEMMA LoseTransactionKeepsSlots ==
  ASSUME IInv, IInv', SlotsOK, NEW s \in Scheduler, LoseTransaction(s)
  PROVE  SlotsOK'
<1>1. /\ sch[s] \in Local /\ faults \in Nat /\ faults' = faults + 1 /\ lock = s
      /\ pod' = pod /\ sch[s].cur \in Worker \union {NoOne}
  BY DEF IInv, TypeOK, Local, LoseTransaction, Fault, LockHeld
<1>2. PICK l : sch' = [sch EXCEPT ![s] = l] /\ l = [sch[s] EXCEPT !.live = FALSE]
  BY Zenon DEF LoseTransaction, Become
<1>3. /\ l.pc = sch[s].pc /\ l.cur = sch[s].cur /\ l.slots = sch[s].slots
  BY <1>1, <1>2 DEF Local
<1>4. /\ sch'[s] = l /\ \A t \in Scheduler : t # s => sch'[t] = sch[t]
  BY <1>2 DEF IInv, TypeOK
<1>5. OccupyingPods' = OccupyingPods
  BY <1>1 DEF OccupyingPods
<1>6. CASE lock' = lock
  <2>1. /\ Provisioning(l) => Provisioning(sch[s]) /\ l.slots <= sch[s].slots
        /\ faults' >= faults
    BY <1>1, <1>3 DEF Provisioning, Local
  <2> QED BY <1>1, <1>2, <1>3, <1>5, <1>6, <2>1, SlotsKept DEF Reserving
<1>7. CASE Release(s) /\ ~Reserving(sch[s])
  <2>1. lock' = NoOne /\ s # NoOne /\ ~Reserving(l) /\ faults' >= faults
        /\ \A t \in Scheduler : lock' # t
    BY <1>1, <1>3, <1>7 DEF Release, Reserving
  <2> QED BY <1>1, <1>2, <1>5, <2>1, SlotsKept
<1>8. CASE "conn" \in Faults /\ Release(s) /\ Reserving(sch[s])
  <2>1. lock' = NoOne /\ \A t \in Scheduler : lock' # t
    BY <1>1, <1>8 DEF Release
  <2>2. Losses' = Losses + 1 /\ Losses \in Nat /\ Slots \in Nat
    BY <1>1, <1>8 DEF Losses
  <2>3. sch[s].cur \in Worker
    BY <1>8 DEF IInv, AllSound, Sound, NameOK
  <2>4. Strays' \subseteq Strays \union {sch[s].cur}
    BY <1>1, <1>3, <1>4, <2>1 DEF Strays, Reserving
  <2>5. Promised' \subseteq Promised \union {sch[s].cur}
    BY <1>5, <2>4 DEF Promised
  <2>6. /\ Strays \in SUBSET Worker /\ Strays' \in SUBSET Worker
        /\ Promised \in SUBSET Worker /\ Promised' \in SUBSET Worker
    BY DEF Promised, OccupyingPods, Strays
  <2>7. /\ Cardinality(Strays') <= Cardinality(Strays) + 1
        /\ Cardinality(Promised') <= Cardinality(Promised) + 1
    BY <2>3, <2>4, <2>5, <2>6, OneMorePod
  <2>8. /\ Cardinality(Strays) \in Nat /\ Cardinality(Strays') \in Nat
        /\ Cardinality(Promised) \in Nat /\ Cardinality(Promised') \in Nat
    BY <2>6, PromisedFinite
  <2> QED BY <2>1, <2>2, <2>7, <2>8 DEF SlotsOK
<1> QED BY <1>6, <1>7, <1>8 DEF LoseTransaction, Fault

-----------------------------------------------------------------------------
(* Everything else leaves the lock and the schedulers alone.               *)
LEMMA EnvKeepsSlots ==
  ASSUME IInv, SlotsOK, UNCHANGED <<lock, sch>>, faults' \in Nat, faults' >= faults,
         OccupyingPods' \subseteq OccupyingPods
  PROVE  SlotsOK'
<1>1. Strays' = Strays
  BY DEF Strays, Reserving
<1>2. Promised' \subseteq Promised
  BY <1>1 DEF Promised
<1>3. /\ Cardinality(Promised') <= Cardinality(Promised)
      /\ Cardinality(Promised) \in Nat /\ Cardinality(Promised') \in Nat
      /\ Cardinality(Strays) \in Nat
  BY <1>2, PromisedFinite
<1>4. Losses \in Nat /\ Losses' \in Nat /\ Losses <= Losses' /\ Slots \in Nat
  BY DEF IInv, TypeOK, Losses
<1>5. \A s \in Scheduler : sch[s].slots \in Nat
  BY DEF IInv, TypeOK, Local
<1> QED BY <1>1, <1>3, <1>4, <1>5 DEF SlotsOK, Provisioning

LEMMA StepKeepsSlots == IInv /\ IInv' /\ SlotsOK /\ [Next]_vars => SlotsOK'
<1> SUFFICES ASSUME IInv, IInv', SlotsOK, [Next]_vars PROVE SlotsOK'
  OBVIOUS
<1>1. ASSUME NEW s \in Scheduler, SchedStep(s) \/ Crash(s) \/ LoseTransaction(s)
      PROVE  SlotsOK'
  <2>1. CASE SkipJob(s) \/ CreateJIT(s)
    BY <2>1, ProvisionKeepsSlots
  <2>2. CASE \E w \in Worker : ReserveRunnerName(s, w)
    BY <2>2, ReserveKeepsSlots
  <2>3. CASE DemandMatch(s) \/ CreatePod(s) \/ LoseTransaction(s)
    BY <2>3, DemandMatchKeepsSlots, CreatePodKeepsSlots, LoseTransactionKeepsSlots
  <2> QED BY <1>1, <2>1, <2>2, <2>3, SyncKeepsSlots, Zenon DEF SchedStep
<1>2. ASSUME NEW w \in Worker, Env(w) PROVE SlotsOK'
  <2>1. UNCHANGED <<lock, sch>> /\ faults' \in Nat /\ faults' >= faults
    BY <1>2 DEF Env, JobRecorded, PodStarts, PodFails, RunnerConnects, TakesJob, JobDone,
       PodSucceeds, NodeDown, Ages, Fault, IInv, TypeOK
  <2>2. OccupyingPods' \subseteq OccupyingPods
    BY <1>2 DEF Env, JobRecorded, PodStarts, PodFails, RunnerConnects, TakesJob, JobDone,
       PodSucceeds, NodeDown, Ages, Fault, IInv, TypeOK, OccupyingPods
  <2> QED BY <2>1, <2>2, EnvKeepsSlots
<1>3. CASE UNCHANGED vars
  <2>1. OccupyingPods' \subseteq OccupyingPods /\ faults' \in Nat /\ faults' >= faults
    BY <1>3 DEF vars, OccupyingPods, IInv, TypeOK
  <2> QED BY <1>3, <2>1, EnvKeepsSlots DEF vars
<1> QED BY <1>1, <1>2, <1>3 DEF Next

LEMMA InitSlots == Init => SlotsOK
<1> SUFFICES ASSUME Init PROVE SlotsOK
  OBVIOUS
<1>1. Strays = {} /\ OccupyingPods = {} /\ \A s \in Scheduler : ~Provisioning(sch[s])
  BY IdleFacts DEF Init, Strays, OccupyingPods, Reserving, Provisioning
<1>2. Promised = {} /\ Losses \in Nat
  BY <1>1 DEF Promised, Losses, Init
<1> QED BY <1>1, <1>2, FS_EmptySet DEF SlotsOK

LEMMA SlotsInductive == Spec => [](IInv /\ SlotsOK)
<1>1. IInv /\ SlotsOK /\ [Next]_vars => (IInv /\ SlotsOK)'
  BY StepIInv, StepKeepsSlots
<1> QED BY InitIInv, InitSlots, <1>1, PTL DEF Spec

LEMMA OvercommitBound == IInv /\ SlotsOK => Cardinality(OccupyingPods) <= Slots + Losses
<1> SUFFICES ASSUME IInv, SlotsOK PROVE Cardinality(OccupyingPods) <= Slots + Losses
  OBVIOUS
<1>1. /\ Cardinality(OccupyingPods) <= Cardinality(Promised)
      /\ Cardinality(OccupyingPods) \in Nat /\ Cardinality(Promised) \in Nat
  BY PromisedFinite DEF Promised
<1>2. Losses \in Nat /\ Slots \in Nat
  BY DEF IInv, TypeOK, Losses
<1> QED BY <1>1, <1>2 DEF SlotsOK

(* AvailableSlots is counted once and then only decremented: as long as no *)
(* connection is lost, so that the table lock serialises the schedulers,   *)
(* demandMatch never creates more pods than the pool has slots, whatever   *)
(* else fails.                                                             *)
THEOREM CapacityHolds ==
  ASSUME "conn" \notin Faults PROVE Spec => []CapacityRespected
<1>1. IInv /\ SlotsOK => CapacityRespected
  <2> SUFFICES ASSUME IInv, SlotsOK PROVE CapacityRespected
    OBVIOUS
  <2>1. Losses = 0 /\ Slots + 0 = Slots
    BY DEF Losses
  <2> QED BY <2>1, OvercommitBound DEF CapacityRespected
<1> QED BY <1>1, SlotsInductive, PTL

(* A lost connection frees the lock while the iteration runs on: each one  *)
(* may cost the pool one pod too many, never more.                         *)
THEOREM OvercommitBounded == Spec => [](Cardinality(OccupyingPods) <= Slots + faults)
<1>1. IInv /\ SlotsOK => Cardinality(OccupyingPods) <= Slots + faults
  <2> SUFFICES ASSUME IInv, SlotsOK PROVE Cardinality(OccupyingPods) <= Slots + faults
    OBVIOUS
  <2>1. Losses \in Nat /\ Losses <= faults /\ faults \in Nat /\ Slots \in Nat
    BY DEF IInv, TypeOK, Losses
  <2>2. Cardinality(OccupyingPods) \in Nat
    BY PromisedFinite
  <2> QED BY <2>1, <2>2, OvercommitBound
<1> QED BY <1>1, SlotsInductive, PTL

-----------------------------------------------------------------------------
(* The runners.  A pod exists only once its runner has been registered,    *)
(* and a name is registered once; so a worker that was seen with a pod but *)
(* is missing from GitHub's list has left, unless the list itself failed.  *)

Left == {"done", "deleted"}

RunnerOK(l) ==
  /\ l.pc = "jit" => runner[l.cur] = "none"
  /\ l.pc = "create" => runner[l.cur] # "none"
  /\ l.pc = "kill" => runner[l.cur] \in Left
  /\ \A w \in Worker : l.seen[w] # "none" => pod[w] # "none"
  /\ l.pc \in {"health", "kill"} =>
       \A w \in l.todo : pod[w] # "none" /\ (l.gh[w] = "none" => runner[w] \in Left)

RunnersOK ==
  /\ \A w \in Worker : pod[w] # "none" => runner[w] # "none"
  /\ \A s \in Scheduler : RunnerOK(sch[s])

(* What a step may do to a pod and to a runner: neither ever comes back,   *)
(* and only provisioning brings one into being.                            *)
PodsMove(s) == \A w \in Worker :
  /\ pod[w] # "none" => pod'[w] # "none"
  /\ pod[w] = "none" => pod'[w] = "none" \/ (sch[s].pc = "create" /\ w = sch[s].cur)

RunnersMove(s) == \A w \in Worker :
  /\ runner[w] # "none" => runner'[w] # "none"
  /\ runner[w] \in Left => runner'[w] \in Left
  /\ runner[w] = "none" => runner'[w] = "none" \/ (sch[s].pc = "jit" /\ w = sch[s].cur)

LEMMA RunnersStep ==
  ASSUME IInv, RunnersOK, NEW s \in Scheduler, NEW l, sch' = [sch EXCEPT ![s] = l],
         PodsMove(s), RunnersMove(s), RunnerOK(l)'
  PROVE  RunnersOK'
<1>1. /\ sch'[s] = l /\ \A t \in Scheduler : t # s => sch'[t] = sch[t]
      /\ \A t \in Scheduler : sch[t] \in Local /\ NameOK(sch[t]) /\ RunnerOK(sch[t])
  BY DEF IInv, TypeOK, AllSound, Sound, RunnersOK
<1>2. \A w \in Worker : pod'[w] # "none" => runner'[w] # "none"
  BY <1>1 DEF RunnersOK, RunnerOK, PodsMove, RunnersMove
<1>3. ASSUME NEW t \in Scheduler, t # s PROVE RunnerOK(sch[t])'
  <2>1. ASSUME sch[t].pc = "jit" PROVE runner'[sch[t].cur] = "none"
    <3>1. Reserving(sch[t]) /\ sch[t].cur \in Worker /\ sch[t].view[sch[t].cur] # "none"
      BY <1>1, <2>1 DEF NameOK, Reserving
    <3>2. ~(sch[s].pc = "jit" /\ sch[t].cur = sch[s].cur)
      BY <1>3, <3>1 DEF IInv, Private, Reserving
    <3> QED BY <1>1, <2>1, <3>1, <3>2 DEF RunnerOK, RunnersMove
  <2>2. sch[t].pc = "create" => runner'[sch[t].cur] # "none"
    BY <1>1 DEF NameOK, Reserving, RunnerOK, RunnersMove
  <2>3. sch[t].pc = "kill" => runner'[sch[t].cur] \in Left
    BY <1>1 DEF NameOK, RunnerOK, RunnersMove
  <2>4. \A w \in Worker : sch[t].seen[w] # "none" => pod'[w] # "none"
    BY <1>1 DEF RunnerOK, PodsMove
  <2>5. ASSUME sch[t].pc \in {"health", "kill"}, NEW w \in sch[t].todo
        PROVE  pod'[w] # "none" /\ (sch[t].gh[w] = "none" => runner'[w] \in Left)
    <3>1. w \in Worker
      BY <1>1 DEF Local
    <3> QED BY <1>1, <2>5, <3>1 DEF RunnerOK, PodsMove, RunnersMove
  <2> QED BY <1>1, <1>3, <2>1, <2>2, <2>3, <2>4, <2>5 DEF RunnerOK
<1>4. \A t \in Scheduler : RunnerOK(sch[t])'
  BY <1>1, <1>3
<1> QED BY <1>2, <1>4 DEF RunnersOK

(* Outside of provisioning and the health checks nothing is at stake.      *)
Elsewhere == {"jit", "create", "kill", "health"}

LEMMA ElsewhereStep ==
  ASSUME IInv, RunnersOK, NEW s \in Scheduler, NEW l, sch' = [sch EXCEPT ![s] = l],
         PodsMove(s), RunnersMove(s), l.pc \notin Elsewhere,
         \A w \in Worker : l.seen[w] # "none" => pod[w] # "none"
  PROVE  RunnersOK'
<1>1. RunnerOK(l)'
  BY DEF RunnerOK, Elsewhere, PodsMove
<1> QED BY <1>1, RunnersStep

(* A step of an iteration that makes no pod and registers no runner.       *)
LEMMA SyncMoves ==
  ASSUME IInv, NEW s \in Scheduler,
         \/ pod' = pod
         \/ \E S \in SUBSET Worker : RemovePods(S),
         \/ runner' = runner
         \/ \E w \in Worker : Deleted(w)
  PROVE  PodsMove(s) /\ RunnersMove(s)
<1>1. pod \in [Worker -> Phases] /\ runner \in [Worker -> RunnerState]
  BY DEF IInv, TypeOK
<1>2. PodsMove(s)
  BY <1>1 DEF PodsMove, RemovePods
<1>3. RunnersMove(s)
  BY <1>1 DEF RunnersMove, Deleted, Left, RunnerState, Registered
<1> QED BY <1>2, <1>3

(* The list of runners is read after the list of pods: a worker seen with  *)
(* a pod had been registered by then.                                      *)
LEMMA HealthChecksRunners ==
  ASSUME IInv, RunnersOK, "list" \notin Faults, NEW s \in Scheduler, HealthChecks(s)
  PROVE  RunnersOK'
<1>1. /\ sch[s] \in Local /\ runner \in [Worker -> RunnerState] /\ RunnerOK(sch[s])
      /\ PodsMove(s) /\ RunnersMove(s) /\ pod' = pod /\ runner' = runner
  <2>1. pod' = pod /\ runner' = runner
    BY Zenon DEF HealthChecks
  <2> QED BY <2>1, SyncMoves DEF IInv, TypeOK, RunnersOK
<1>2. CASE LeaveSync(s)
  <2>1. PICK l : l = [sch[s] EXCEPT !.pc = "match", !.seen = Idle.seen, !.stranded = {},
                                    !.gh = Idle.gh, !.todo = {}]
    OBVIOUS
  <2>2. l.pc = "match" /\ l.seen = Idle.seen
    BY <1>1, <2>1 DEF Local
  <2>3. sch' = [sch EXCEPT ![s] = l] /\ \A w \in Worker : l.seen[w] = "none"
    BY <1>2, <2>1, <2>2 DEF LeaveSync, Become, Idle
  <2> QED BY <1>1, <2>2, <2>3, ElsewhereStep DEF Elsewhere
<1>3. ASSUME NEW list, NEW todo \in SUBSET Worker,
             Become(s, [sch[s] EXCEPT !.pc = "health", !.gh = list, !.todo = todo]),
             \A w \in todo : sch[s].seen[w] # "none" /\ list[w] = RunnerList[w]
      PROVE  RunnersOK'
  <2>1. PICK l : l = [sch[s] EXCEPT !.pc = "health", !.gh = list, !.todo = todo]
    OBVIOUS
  <2>2. l.pc = "health" /\ l.gh = list /\ l.todo = todo /\ l.seen = sch[s].seen
    BY <1>1, <2>1 DEF Local
  <2>3. \A w \in todo : pod[w] # "none" /\ (list[w] = "none" => runner[w] \in Left)
    <3> SUFFICES ASSUME NEW w \in todo
                 PROVE  pod[w] # "none" /\ (list[w] = "none" => runner[w] \in Left)
      OBVIOUS
    <3>1. pod[w] # "none" /\ runner[w] # "none"
      BY <1>1, <1>3 DEF RunnersOK, RunnerOK
    <3>2. RunnerList[w] = "none" => runner[w] \notin Registered
      BY DEF RunnerList, Registered
    <3> QED BY <1>1, <1>3, <3>1, <3>2 DEF RunnerState, Left
  <2>4. RunnerOK(l)'
    BY <1>1, <2>2, <2>3 DEF RunnerOK
  <2>5. sch' = [sch EXCEPT ![s] = l]
    BY <1>3, <2>1, Zenon DEF Become
  <2> QED BY <1>1, <2>4, <2>5, RunnersStep
<1>4. {w \in ActiveIn(sch[s].view) : sch[s].seen[w] \in Listed} \in SUBSET Worker
  BY DEF ActiveIn
<1>5. ~Fault("list")
  BY DEF Fault
<1>6. \/ LeaveSync(s)
      \/ \E list : \E todo \in SUBSET Worker :
           /\ Become(s, [sch[s] EXCEPT !.pc = "health", !.gh = list, !.todo = todo])
           /\ \A w \in todo : sch[s].seen[w] # "none" /\ list[w] = RunnerList[w]
  <2> DEFINE visit == {w \in ActiveIn(sch[s].view) : sch[s].seen[w] \in Listed}
             with(list, todo) == Become(s, [sch[s] EXCEPT !.pc = "health", !.gh = list,
                                                          !.todo = todo])
  <2>1. \/ LeaveSync(s)
        \/ with(NoRunners, {})
        \/ with(RunnerList, visit)
    BY <1>5, Zenon DEF HealthChecks
  <2>2. \A w \in visit : sch[s].seen[w] # "none"
    OBVIOUS
  <2>3. visit \in SUBSET Worker
    BY <1>4
  <2> HIDE DEF visit
  <2>4. CASE with(NoRunners, {})
    <3>1. /\ {} \in SUBSET Worker
          /\ \A w \in {} : sch[s].seen[w] # "none" /\ NoRunners[w] = RunnerList[w]
      OBVIOUS
    <3> QED BY <2>4, <3>1, Zenon
  <2>5. CASE with(RunnerList, visit)
    BY <2>2, <2>3, <2>5, Zenon
  <2> QED BY <2>1, <2>4, <2>5
<1> QED BY <1>2, <1>3, <1>6

LEMMA GiveUpRunners ==
  ASSUME IInv, RunnersOK, NEW s \in Scheduler, NEW w \in Worker, GiveUp(s, w)
  PROVE  RunnersOK'
<1>1. /\ sch[s] \in Local /\ runner \in [Worker -> RunnerState] /\ RunnerOK(sch[s])
      /\ PodsMove(s) /\ RunnersMove(s) /\ pod' = pod
  <2>1. pod' = pod /\ (runner' = runner \/ Deleted(w))
    BY Zenon DEF GiveUp
  <2> QED BY <2>1, SyncMoves DEF IInv, TypeOK, RunnersOK
<1>2. sch[s].pc = "health" /\ w \in sch[s].todo
  BY Zenon DEF GiveUp, At
<1>3. /\ pod[w] # "none" /\ runner[w] # "none" /\ (sch[s].gh[w] = "none" => runner[w] \in Left)
      /\ \A v \in sch[s].todo : /\ pod[v] # "none"
                                /\ sch[s].gh[v] = "none" => runner'[v] \in Left
  BY <1>1, <1>2 DEF RunnersOK, RunnerOK, RunnersMove, Local
<1>4. CASE Become(s, [sch[s] EXCEPT !.todo = @ \ {w}])
  <2>1. PICK l : l = [sch[s] EXCEPT !.todo = @ \ {w}]
    OBVIOUS
  <2>2. /\ l.pc = "health" /\ l.gh = sch[s].gh /\ l.todo = sch[s].todo \ {w}
        /\ l.seen = sch[s].seen
    BY <1>1, <1>2, <2>1 DEF Local
  <2>3. RunnerOK(l)'
    BY <1>1, <1>3, <2>2 DEF RunnerOK
  <2>4. sch' = [sch EXCEPT ![s] = l]
    BY <1>4, <2>1, Zenon DEF Become
  <2> QED BY <1>1, <2>3, <2>4, RunnersStep
<1>5. CASE Become(s, [sch[s] EXCEPT !.pc = "kill", !.cur = w]) /\ runner'[w] \in Left
  <2>1. PICK l : l = [sch[s] EXCEPT !.pc = "kill", !.cur = w]
    OBVIOUS
  <2>2. /\ l.pc = "kill" /\ l.cur = w /\ l.gh = sch[s].gh /\ l.todo = sch[s].todo
        /\ l.seen = sch[s].seen
    BY <1>1, <2>1 DEF Local
  <2>3. RunnerOK(l)'
    BY <1>1, <1>3, <1>5, <2>2 DEF RunnerOK
  <2>4. sch' = [sch EXCEPT ![s] = l]
    BY <1>5, <2>1, Zenon DEF Become
  <2> QED BY <1>1, <2>3, <2>4, RunnersStep
<1>6. Deleted(w) => runner'[w] \in Left
  BY <1>1, <1>3 DEF Deleted, RunnerState, Left
<1>7. ~MustDeleteFirst(s, w) /\ runner' = runner => runner'[w] \in Left
  BY <1>3 DEF MustDeleteFirst
<1> QED BY <1>4, <1>5, <1>6, <1>7, Zenon DEF GiveUp

(* The rest of the iteration, up to demandMatch.                           *)
LEMMA SyncRunners ==
  ASSUME IInv, RunnersOK, NEW s \in Scheduler,
         \/ Lock(s) \/ ListPods(s) \/ SyncPods(s) \/ FailAndCleanup(s)
         \/ BeginCleanup(s) \/ DeleteTerminalPods(s)
         \/ \E w \in Worker : \/ UnreachableNodeCheck(s, w) \/ KeepWorker(s, w)
                              \/ GitHubCleanup(s, w)
  PROVE  RunnersOK'
<1>1. /\ sch[s] \in Local /\ RunnerOK(sch[s]) /\ pod \in [Worker -> Phases]
      /\ \A w \in Worker : Idle.seen[w] = "none"
  BY DEF IInv, TypeOK, RunnersOK, Idle
<1>2. PodsMove(s) /\ RunnersMove(s)
  <2>1. \/ pod' = pod
        \/ \E S \in SUBSET Worker : RemovePods(S)
    BY DEF Lock, ListPods, SyncPods, FailAndCleanup, BeginCleanup, DeleteTerminalPods,
       UnreachableNodeCheck, ForceDelete, KeepWorker, GitHubCleanup
  <2>2. \/ runner' = runner
        \/ \E w \in Worker : Deleted(w)
    BY Zenon DEF Lock, ListPods, SyncPods, FailAndCleanup, BeginCleanup, DeleteTerminalPods,
       UnreachableNodeCheck, ForceDelete, KeepWorker, GitHubCleanup
  <2> QED BY <2>1, <2>2, SyncMoves
<1>3. ASSUME NEW l, Become(s, l), l.pc \notin Elsewhere,
             l.seen = sch[s].seen \/ l.seen = Idle.seen \/ l.seen = pod
      PROVE  RunnersOK'
  <2>1. sch' = [sch EXCEPT ![s] = l] /\ \A w \in Worker : l.seen[w] # "none" => pod[w] # "none"
    BY <1>1, <1>3 DEF Become, RunnerOK
  <2> QED BY <1>2, <1>3, <2>1, ElsewhereStep
<1>4. ASSUME NEW l, Become(s, l), l.pc = "health", sch[s].pc \in {"health", "kill"},
             l.seen = sch[s].seen, l.gh = sch[s].gh, l.todo \subseteq sch[s].todo
      PROVE  RunnersOK'
  <2>1. sch' = [sch EXCEPT ![s] = l] /\ sch[s].todo \subseteq Worker
    BY <1>1, <1>4 DEF Become, Local
  <2>2. RunnerOK(l)'
    BY <1>1, <1>2, <1>4, <2>1 DEF RunnerOK, PodsMove, RunnersMove
  <2> QED BY <1>2, <2>1, <2>2, RunnersStep
<1>5. CASE LeaveSync(s)
  <2>1. PICK l : l = [sch[s] EXCEPT !.pc = "match", !.seen = Idle.seen, !.stranded = {},
                                    !.gh = Idle.gh, !.todo = {}]
    OBVIOUS
  <2>2. l.pc \notin Elsewhere /\ l.seen = Idle.seen
    BY <1>1, <2>1 DEF Local, Elsewhere
  <2> QED BY <1>3, <1>5, <2>1, <2>2, Zenon DEF LeaveSync
<1>6. CASE Lock(s)
  <2>1. PICK l : l = [Idle EXCEPT !.pc = "list", !.live = TRUE, !.view = row]
    OBVIOUS
  <2>2. l.pc \notin Elsewhere /\ l.seen = Idle.seen
    BY <2>1 DEF Idle, Elsewhere
  <2> QED BY <1>3, <1>6, <2>1, <2>2, Zenon DEF Lock
<1>7. CASE ListPods(s)
  <2>1. PICK l : l = [sch[s] EXCEPT !.pc = "read", !.seen = pod, !.stranded = down]
    OBVIOUS
  <2>2. l.pc \notin Elsewhere /\ l.seen = pod
    BY <1>1, <2>1 DEF Local, Elsewhere
  <2> QED BY <1>3, <1>5, <1>7, <2>1, <2>2, Zenon DEF ListPods
<1>8. CASE SyncPods(s)
  <2>1. \A v, wr, todo : LET l == [sch[s] EXCEPT !.pc = "nodes", !.stranded = {}, !.view = v,
                                                 !.wrote = wr, !.todo = todo]
                         IN  l.pc \notin Elsewhere /\ l.seen = sch[s].seen
    BY <1>1 DEF Local, Elsewhere
  <2>2. CASE ~Live(s)
    BY <1>5, <1>8, <2>2, Zenon DEF SyncPods
  <2>3. CASE Live(s)
    <3>1. PICK v, wr, todo : Become(s, [sch[s] EXCEPT !.pc = "nodes", !.stranded = {},
                                          !.view = v, !.wrote = wr, !.todo = todo])
      BY <1>8, <2>3, Zenon DEF SyncPods
    <3> QED BY <1>3, <2>1, <3>1, Zenon
  <2> QED BY <2>2, <2>3
<1>9. CASE FailAndCleanup(s)
  <2>1. \A v, wr, w : LET l == [sch[s] EXCEPT !.pc = "health", !.cur = NoOne, !.todo = @ \ {w},
                                              !.view = v, !.wrote = wr]
                      IN  /\ l.pc = "health" /\ l.seen = sch[s].seen /\ l.gh = sch[s].gh
                          /\ l.todo \subseteq sch[s].todo
    BY <1>1 DEF Local
  <2>2. sch[s].pc = "kill"
    BY <1>9, Zenon DEF FailAndCleanup, At
  <2>3. PICK v, wr, w : Become(s, [sch[s] EXCEPT !.pc = "health", !.cur = NoOne,
                                     !.todo = @ \ {w}, !.view = v, !.wrote = wr])
    BY <1>9, Zenon DEF FailAndCleanup
  <2>4. sch[s].pc \in {"health", "kill"}
    BY <2>2
  <2> QED BY <1>4, <2>1, <2>3, <2>4, Zenon
<1>10. CASE BeginCleanup(s)
  <2>1. \A S : LET l == [sch[s] EXCEPT !.pc = "cleanup", !.todo = S, !.gh = Idle.gh]
               IN  l.pc \notin Elsewhere /\ l.seen = sch[s].seen
    BY <1>1 DEF Local, Elsewhere
  <2>2. \/ LeaveSync(s)
        \/ \E S : Become(s, [sch[s] EXCEPT !.pc = "cleanup", !.todo = S, !.gh = Idle.gh])
    BY <1>10, Zenon DEF BeginCleanup
  <2> QED BY <1>3, <1>5, <2>1, <2>2, Zenon
<1>11. CASE DeleteTerminalPods(s)
  BY <1>5, <1>11, Zenon DEF DeleteTerminalPods
<1>12. ASSUME NEW w \in Worker, UnreachableNodeCheck(s, w) PROVE RunnersOK'
  <2>1. \A v, wr : LET l == [sch[s] EXCEPT !.todo = @ \ {w}, !.view = v, !.wrote = wr]
                   IN  l.pc = sch[s].pc /\ l.seen = sch[s].seen
    BY <1>1 DEF Local
  <2>2. PICK v, wr : Become(s, [sch[s] EXCEPT !.todo = @ \ {w}, !.view = v, !.wrote = wr])
    BY <1>12, Zenon DEF UnreachableNodeCheck
  <2>3. sch[s].pc \notin Elsewhere
    BY <1>12 DEF UnreachableNodeCheck, At, Elsewhere
  <2> QED BY <1>3, <2>1, <2>2, <2>3, Zenon
<1>13. ASSUME NEW w \in Worker, KeepWorker(s, w) PROVE RunnersOK'
  <2>1. PICK l : l = [sch[s] EXCEPT !.todo = @ \ {w}]
    OBVIOUS
  <2>2. /\ l.pc = sch[s].pc /\ l.seen = sch[s].seen /\ l.gh = sch[s].gh
        /\ l.todo \subseteq sch[s].todo
    BY <1>1, <2>1 DEF Local
  <2>3. sch[s].pc = "health" /\ sch[s].pc \in {"health", "kill"} /\ Become(s, l)
    BY <1>13, <2>1 DEF KeepWorker, At
  <2> QED BY <1>4, <2>2, <2>3
<1>14. ASSUME NEW w \in Worker, GitHubCleanup(s, w) PROVE RunnersOK'
  <2>1. PICK l : l = [sch[s] EXCEPT !.todo = @ \ {w}]
    OBVIOUS
  <2>2. l.pc = sch[s].pc /\ l.seen = sch[s].seen
    BY <1>1, <2>1 DEF Local
  <2>3. sch[s].pc \notin Elsewhere /\ Become(s, l)
    BY <1>14, <2>1 DEF GitHubCleanup, At, Elsewhere
  <2> QED BY <1>3, <2>2, <2>3
<1> QED BY <1>6, <1>7, <1>8, <1>9, <1>10, <1>11, <1>12, <1>13, <1>14

(* demandMatch: a fresh name has no runner, the JIT configuration makes    *)
(* one, and only then is the pod created.                                  *)
LEMMA ProvisionRunners ==
  ASSUME IInv, RunnersOK, NEW s \in Scheduler,
         \/ DemandMatch(s) \/ SkipJob(s) \/ CreateJIT(s) \/ CreatePod(s) \/ EndMatch(s)
         \/ \E w \in Worker : ReserveRunnerName(s, w)
  PROVE  RunnersOK'
<1>1. /\ sch[s] \in Local /\ RunnerOK(sch[s]) /\ NameOK(sch[s])
      /\ pod \in [Worker -> Phases] /\ runner \in [Worker -> RunnerState]
  BY DEF IInv, TypeOK, RunnersOK, AllSound, Sound
<1>2. ASSUME NEW l, Become(s, l), l.pc \notin Elsewhere, l.seen = sch[s].seen,
             PodsMove(s), RunnersMove(s)
      PROVE  RunnersOK'
  <2>1. sch' = [sch EXCEPT ![s] = l] /\ \A w \in Worker : l.seen[w] # "none" => pod[w] # "none"
    BY <1>1, <1>2 DEF Become, RunnerOK
  <2> QED BY <1>2, <2>1, ElsewhereStep
<1>3. ASSUME DemandMatch(s) \/ SkipJob(s) \/ EndMatch(s) PROVE RunnersOK'
  <2>1. PodsMove(s) /\ RunnersMove(s)
    <3>1. pod' = pod /\ runner' = runner
      BY <1>3, Zenon DEF DemandMatch, SkipJob, EndMatch
    <3> QED BY <3>1, SyncMoves
  <2>2. \A n : LET l == [sch[s] EXCEPT !.pc = "provision", !.slots = Available, !.tries = n]
               IN  l.pc \notin Elsewhere /\ l.seen = sch[s].seen
    <3> HIDE DEF Available
    <3> QED BY <1>1 DEF Local, Elsewhere
  <2>3. PICK e : e = [sch[s] EXCEPT !.pc = "end"]
    OBVIOUS
  <2>4. e.pc \notin Elsewhere /\ e.seen = sch[s].seen
    BY <1>1, <2>3 DEF Local, Elsewhere
  <2>5. PICK k : k = [sch[s] EXCEPT !.tries = @ - 1]
    OBVIOUS
  <2>6. k.pc = sch[s].pc /\ k.seen = sch[s].seen
    BY <1>1, <2>5 DEF Local
  <2>7. CASE Become(s, e)
    BY <1>2, <2>1, <2>4, <2>7
  <2>8. CASE SkipJob(s)
    <3>1. sch[s].pc \notin Elsewhere /\ Become(s, k)
      BY <2>5, <2>8 DEF SkipJob, Pops, At, Elsewhere
    <3> QED BY <1>2, <2>1, <2>6, <3>1
  <2>9. CASE \E n : Become(s, [sch[s] EXCEPT !.pc = "provision", !.slots = Available, !.tries = n])
    BY <1>2, <2>1, <2>2, <2>9, Zenon
  <2> QED BY <1>3, <2>3, <2>7, <2>8, <2>9, Zenon DEF DemandMatch, EndMatch, Goto
<1>4. ASSUME NEW w \in Worker, ReserveRunnerName(s, w) PROVE RunnersOK'
  <2>1. PICK l : l = [sch[s] EXCEPT !.pc = "jit", !.cur = w, !.tries = @ - 1,
                                    !.view[w] = "pending", !.wrote = @ \union {w}]
    OBVIOUS
  <2>2. l.pc = "jit" /\ l.cur = w /\ l.seen = sch[s].seen
    BY <1>1, <2>1 DEF Local
  <2>3. pod' = pod /\ runner' = runner /\ runner[w] = "none"
    BY <1>4, Zenon DEF ReserveRunnerName, Fresh
  <2>4. RunnerOK(l)'
    BY <1>1, <2>2, <2>3 DEF RunnerOK
  <2>5. sch' = [sch EXCEPT ![s] = l]
    BY <1>4, <2>1, Zenon DEF ReserveRunnerName, Become
  <2> QED BY <2>3, <2>4, <2>5, SyncMoves, RunnersStep
<1>5. ASSUME NEW status, NEW slots, NEW tries, Provisioned(s, status, slots, tries),
             PodsMove(s), RunnersMove(s)
      PROVE  RunnersOK'
  <2>1. \A v, wr : LET l == [sch[s] EXCEPT !.pc = "provision", !.cur = NoOne, !.slots = slots,
                                           !.tries = tries, !.view = v, !.wrote = wr]
                   IN  l.pc \notin Elsewhere /\ l.seen = sch[s].seen
    BY <1>1 DEF Local, Elsewhere
  <2> QED BY <1>2, <1>5, <2>1, Zenon DEF Provisioned
<1>6. CASE CreateJIT(s)
  <2>1. sch[s].pc = "jit" /\ sch[s].cur \in Worker /\ pod' = pod
        /\ (runner' = runner \/ runner' = [runner EXCEPT ![sch[s].cur] = "offline"])
    BY <1>1, <1>6 DEF CreateJIT, At, NameOK, Reserving
  <2>2. runner[sch[s].cur] = "none"
    BY <1>1, <2>1 DEF RunnerOK
  <2>3. PodsMove(s) /\ RunnersMove(s)
    BY <1>1, <2>1, <2>2 DEF PodsMove, RunnersMove, Left
  <2>4. CASE Goto(s, "create") /\ runner' = [runner EXCEPT ![sch[s].cur] = "offline"]
    <3>1. PICK l : l = [sch[s] EXCEPT !.pc = "create"]
      OBVIOUS
    <3>2. l.pc = "create" /\ l.cur = sch[s].cur /\ l.seen = sch[s].seen
      BY <1>1, <3>1 DEF Local
    <3>3. RunnerOK(l)'
      BY <1>1, <2>1, <2>4, <3>2 DEF RunnerOK
    <3>4. sch' = [sch EXCEPT ![s] = l]
      BY <2>4, <3>1, Zenon DEF Goto, Become
    <3> QED BY <2>3, <3>3, <3>4, RunnersStep
  <2> QED BY <1>5, <1>6, <2>3, <2>4, Zenon DEF CreateJIT
<1>7. CASE CreatePod(s)
  <2>1. sch[s].pc = "create" /\ sch[s].cur \in Worker /\ runner' = runner
        /\ (pod' = pod \/ pod' = [pod EXCEPT ![sch[s].cur] = "pending"])
    BY <1>1, <1>7 DEF CreatePod, At, NameOK, Reserving
  <2>2. PodsMove(s) /\ RunnersMove(s)
    BY <1>1, <2>1 DEF PodsMove, RunnersMove
  <2> QED BY <1>5, <1>7, <2>2, Zenon DEF CreatePod
<1> QED BY <1>3, <1>4, <1>6, <1>7

LEMMA EndRunners ==
  ASSUME IInv, RunnersOK, NEW s \in Scheduler,
         Commit(s) \/ Rollback(s) \/ Crash(s) \/ LoseTransaction(s)
  PROVE  RunnersOK'
<1>1. sch[s] \in Local /\ RunnerOK(sch[s]) /\ pod' = pod /\ runner' = runner
  BY DEF IInv, TypeOK, RunnersOK, Commit, Rollback, Crash, LoseTransaction
<1>2. PodsMove(s) /\ RunnersMove(s)
  BY <1>1, SyncMoves
<1>3. CASE Become(s, Idle)
  <2>1. /\ Idle.pc \notin Elsewhere /\ sch' = [sch EXCEPT ![s] = Idle]
        /\ \A w \in Worker : Idle.seen[w] # "none" => pod[w] # "none"
    BY <1>3 DEF Become, Elsewhere, Idle
  <2> QED BY <1>2, <2>1, ElsewhereStep
<1>4. CASE LoseTransaction(s)
  <2>1. PICK l : l = [sch[s] EXCEPT !.live = FALSE]
    OBVIOUS
  <2>2. /\ l.pc = sch[s].pc /\ l.cur = sch[s].cur /\ l.seen = sch[s].seen
        /\ l.gh = sch[s].gh /\ l.todo = sch[s].todo
    BY <1>1, <2>1 DEF Local
  <2>3. RunnerOK(l)'
    BY <1>1, <2>2 DEF RunnerOK
  <2>4. sch' = [sch EXCEPT ![s] = l]
    BY <1>4, <2>1, Zenon DEF LoseTransaction, Become
  <2> QED BY <1>2, <2>3, <2>4, RunnersStep
<1> QED BY <1>3, <1>4 DEF Commit, Rollback, Crash

LEMMA EnvRunners ==
  ASSUME IInv, RunnersOK, sch' = sch,
         UNCHANGED vars \/ \E w \in Worker : Env(w)
  PROVE  RunnersOK'
<1>1. \A w \in Worker : (pod[w] # "none" <=> pod'[w] # "none")
  BY DEF Env, JobRecorded, PodStarts, PodFails, RunnerConnects, TakesJob, JobDone,
     PodSucceeds, NodeDown, Ages, IInv, TypeOK, vars
<1>2. \A w \in Worker : /\ runner[w] # "none" <=> runner'[w] # "none"
                        /\ runner[w] \in Left => runner'[w] \in Left
  BY DEF Env, JobRecorded, PodStarts, PodFails, RunnerConnects, TakesJob, JobDone,
     PodSucceeds, NodeDown, Ages, Disconnected, Registered, Left, IInv, TypeOK, vars
<1>3. ASSUME NEW s \in Scheduler PROVE RunnerOK(sch[s])'
  <2>1. sch[s] \in Local /\ RunnerOK(sch[s]) /\ NameOK(sch[s])
    BY DEF IInv, TypeOK, RunnersOK, AllSound, Sound
  <2>2. sch[s].todo \subseteq Worker
    BY <2>1 DEF Local
  <2> QED BY <1>1, <1>2, <2>1, <2>2 DEF RunnerOK, NameOK, Reserving
<1> QED BY <1>1, <1>2, <1>3 DEF RunnersOK

LEMMA StepRunners ==
  ASSUME "list" \notin Faults, IInv, RunnersOK, [Next]_vars PROVE RunnersOK'
<1>1. ASSUME NEW s \in Scheduler, SchedStep(s) \/ Crash(s) \/ LoseTransaction(s)
      PROVE  RunnersOK'
  BY <1>1, HealthChecksRunners, GiveUpRunners, SyncRunners, ProvisionRunners, EndRunners,
     Zenon DEF SchedStep
<1>2. ASSUME NEW w \in Worker, Env(w) PROVE RunnersOK'
  <2>1. sch' = sch
    BY <1>2 DEF Env, JobRecorded, PodStarts, PodFails, RunnerConnects, TakesJob, JobDone,
       PodSucceeds, NodeDown, Ages
  <2> QED BY <1>2, <2>1, EnvRunners
<1>3. CASE UNCHANGED vars
  BY <1>3, EnvRunners DEF vars
<1> QED BY <1>1, <1>2, <1>3 DEF Next

LEMMA InitRunners == Init => RunnersOK
BY IdleFacts DEF Init, RunnersOK, RunnerOK, Idle

(* Only failAndCleanup sets a deadline, and only on the pod in its hands.  *)
LEMMA KillsOne ==
  ASSUME IInv, [Next]_vars, NEW w \in Worker, w \in killed' \ killed
  PROVE  \E s \in Scheduler : sch[s].pc = "kill" /\ sch[s].cur = w
<1>1. \A v \in Worker : ~Env(v)
  BY DEF Env, JobRecorded, PodStarts, PodFails, RunnerConnects, TakesJob, JobDone,
     PodSucceeds, NodeDown, Ages
<1>2. \A s \in Scheduler : ~Crash(s) /\ ~LoseTransaction(s)
  BY DEF Crash, LoseTransaction
<1>3. \A S : RemovePods(S) => FALSE
  BY DEF RemovePods
<1>4. PICK s \in Scheduler : SchedStep(s)
  BY <1>1, <1>2 DEF Next, vars
<1>5. ~Lock(s) /\ ~ListPods(s) /\ ~SyncPods(s) /\ ~HealthChecks(s) /\ ~BeginCleanup(s)
  BY DEF Lock, ListPods, SyncPods, HealthChecks, BeginCleanup
<1>6. ~DeleteTerminalPods(s) /\ ~DemandMatch(s) /\ ~SkipJob(s) /\ ~CreateJIT(s) /\ ~EndMatch(s)
  BY <1>3 DEF DeleteTerminalPods, DemandMatch, SkipJob, CreateJIT, EndMatch
<1>7. ~CreatePod(s) /\ ~Commit(s) /\ ~Rollback(s)
  BY DEF CreatePod, Commit, Rollback
<1>8. \A v \in Worker : ~UnreachableNodeCheck(s, v) /\ ~KeepWorker(s, v) /\ ~GiveUp(s, v)
  BY <1>3 DEF UnreachableNodeCheck, ForceDelete, KeepWorker, GiveUp
<1>9. \A v \in Worker : ~GitHubCleanup(s, v) /\ ~ReserveRunnerName(s, v)
  BY DEF GitHubCleanup, ReserveRunnerName
<1>10. FailAndCleanup(s)
  BY <1>4, <1>5, <1>6, <1>7, <1>8, <1>9, Zenon DEF SchedStep
<1>11. sch[s].pc = "kill" /\ (killed' = killed \/ killed' \subseteq killed \union {sch[s].cur})
  BY <1>10 DEF FailAndCleanup, KillPod, At
<1> QED BY <1>11

(* failAndCleanup decides from a list of runners that is stale when it     *)
(* kills: as long as the list itself does not fail, it never sets the      *)
(* deadline on the pod of a runner that is executing a job.                *)
THEOREM NoBusyRunnerKilled ==
  ASSUME "list" \notin Faults PROVE Spec => BusyRunnerNotKilled
<1>1. IInv /\ RunnersOK /\ [Next]_vars => RunnersOK'
  BY StepRunners
<1>2. IInv /\ RunnersOK /\ [Next]_vars =>
        [\A w \in Worker : w \in killed' \ killed => runner[w] # "busy"]_vars
  BY KillsOne DEF RunnersOK, RunnerOK, Left
<1> QED BY <1>1, <1>2, InitRunners, InitIInv, StepIInv, PTL DEF Spec, BusyRunnerNotKilled

==============================================================================
