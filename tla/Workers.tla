------------------------------- MODULE Workers -------------------------------
(***************************************************************************)
(* One scheduler iteration over the workers table, against Kubernetes and  *)
(* GitHub, for one entity and one pool: syncWorkersState (the five phases  *)
(* and the check for unreachable nodes) and demandMatch.                   *)
(*                                                                         *)
(* All database calls of an iteration run in one transaction that holds    *)
(* LOCK TABLE workers IN EXCLUSIVE MODE; calls to Kubernetes and GitHub    *)
(* take effect at once and are not undone when the transaction is.  Pods   *)
(* are listed once, at the start; pods, nodes, runners and jobs go on      *)
(* changing while the iteration works from what it has read.               *)
(*                                                                         *)
(* A worker is known by one name: of its row, its pod and its runner.      *)
(* "kind \in Faults" allows faults of that kind, MaxFaults in all.         *)
(***************************************************************************)
EXTENDS Naturals, FiniteSets

CONSTANTS
  Worker,      \* names reserveRunnerName can draw
  Scheduler,   \* scheduler processes (two while a deploy rolls over)
  NoOne,       \* the free lock; no current worker
  Slots,       \* riseproject.com/runner capacity of the pool
  MaxWorkers,  \* cap on the entity's active workers
  MaxDemand,   \* bound: active jobs of the entity, as a count finds them
  Faults,      \* kinds of fault that may happen
  MaxFaults    \* bound: number of faults

FaultKinds == {"crash", "sql", "conn", "pods", "auth", "list", "delete", "kill",
               "limit", "jit", "create", "node"}

ASSUME ConstantsAssumption ==
  /\ IsFiniteSet(Worker)
  /\ NoOne \notin Worker \union Scheduler
  /\ Slots \in Nat /\ MaxWorkers \in Nat /\ MaxDemand \in Nat /\ MaxFaults \in Nat
  /\ Faults \subseteq FaultKinds

VARIABLES
  row,      \* workers.status, committed
  lock,     \* who holds the table lock
  pod,      \* Kubernetes: phase of the pod
  killed,   \* Kubernetes: pods patched to activeDeadlineSeconds = 1
  down,     \* Kubernetes: pods whose node is unreachable
  runner,   \* GitHub: the runner; "done" once it ran its job and left
  jobRow,   \* jobs: runners that some row names in k8s_pod
  late,     \* time: pod created PodPendingTimeout ago
  age,      \* time: running since < 120s (0), >= 120s (1), >= 600s (2)
  sch,      \* local state of each scheduler
  faults

k8s   == <<pod, killed, down, late, age>>
world == <<k8s, runner, jobRow>>
vars  == <<row, lock, world, sch, faults>>

Active    == {"pending", "running"}
Terminal  == {"completed", "failed"}
Status    == {"none"} \union Active \union Terminal
Phases    == {"none", "pending", "running", "succeeded", "failed", "gone"}
Occupying == {"pending", "running"}        \* phases that hold a slot
Listed    == Phases \ {"none", "gone"}
Registered == {"offline", "online", "busy"}
RunnerState == {"none", "done", "deleted"} \union Registered

PCs == {"idle", "list", "read", "nodes", "health", "kill", "cleanup", "match",
        "provision", "jit", "create", "end"}

(* pc; whether the transaction is alive; the pods and stranded pods of the *)
(* one listing; the cache of GitHub's runner list; the transaction's view  *)
(* of the rows and which of them it wrote; workers the phase has still to  *)
(* visit; the one in hand; slots and jobs left to demandMatch.             *)
Local == [pc : PCs, live : BOOLEAN,
          seen : [Worker -> Phases], stranded : SUBSET Worker,
          gh : [Worker -> {"none"} \union Registered],
          view : [Worker -> Status], wrote : SUBSET Worker,
          todo : SUBSET Worker, cur : Worker \union {NoOne},
          slots : 0..Slots, tries : 0..MaxDemand]

Idle == [pc |-> "idle", live |-> FALSE,
         seen |-> [w \in Worker |-> "none"], stranded |-> {},
         gh |-> [w \in Worker |-> "none"],
         view |-> [w \in Worker |-> "none"], wrote |-> {},
         todo |-> {}, cur |-> NoOne, slots |-> 0, tries |-> 0]

TypeOK ==
  /\ row \in [Worker -> Status]
  /\ lock \in Scheduler \union {NoOne}
  /\ pod \in [Worker -> Phases]
  /\ killed \subseteq Worker /\ down \subseteq Worker
  /\ runner \in [Worker -> RunnerState]
  /\ jobRow \subseteq Worker /\ late \subseteq Worker
  /\ age \in [Worker -> 0..2]
  /\ sch \in [Scheduler -> Local]
  /\ faults \in 0..MaxFaults

Init ==
  /\ row = [w \in Worker |-> "none"] /\ lock = NoOne
  /\ pod = [w \in Worker |-> "none"]
  /\ killed = {} /\ down = {} /\ jobRow = {} /\ late = {}
  /\ runner = [w \in Worker |-> "none"]
  /\ age = [w \in Worker |-> 0]
  /\ sch = [s \in Scheduler |-> Idle]
  /\ faults = 0

Fault(kind) == kind \in Faults /\ faults < MaxFaults /\ faults' = faults + 1
NoFault == UNCHANGED faults

-----------------------------------------------------------------------------
(* Jobs, as this component sees them (Jobs.tla has their own life): which  *)
(* runners they are recorded on, and, in demandMatch, any count of them.   *)

(* The in_progress or completed webhook, or syncJobsState, records the     *)
(* runner of a job -- some time after it started, or never.                *)
JobRecorded(w) ==
  /\ runner[w] \in {"busy", "done"} /\ w \notin jobRow
  /\ jobRow' = jobRow \union {w}
  /\ UNCHANGED <<row, lock, k8s, runner, sch, faults>>

(* Kubernetes, the runner process in the pod, and time.                    *)

PodStarts(w) ==
  /\ pod[w] = "pending" /\ w \notin down
  /\ pod' = [pod EXCEPT ![w] = "running"]
  /\ UNCHANGED <<row, lock, killed, down, late, age, runner, jobRow, sch, faults>>

Disconnected(w) == IF runner[w] \in Registered THEN "offline" ELSE runner[w]

(* The container fails, or the kubelet enforces the deadline.              *)
PodFails(w) ==
  /\ pod[w] \in Occupying /\ w \notin down
  /\ pod' = [pod EXCEPT ![w] = "failed"]
  /\ runner' = [runner EXCEPT ![w] = Disconnected(w)]
  /\ UNCHANGED <<row, lock, killed, down, late, age, jobRow, sch, faults>>

Deadline(w) == w \in killed /\ PodFails(w)

RunnerConnects(w) ==
  /\ pod[w] = "running" /\ w \notin down /\ runner[w] = "offline"
  /\ runner' = [runner EXCEPT ![w] = "online"]
  /\ UNCHANGED <<row, lock, k8s, jobRow, sch, faults>>

TakesJob(w) ==
  /\ runner[w] = "online"
  /\ runner' = [runner EXCEPT ![w] = "busy"]
  /\ UNCHANGED <<row, lock, k8s, jobRow, sch, faults>>

(* An ephemeral runner leaves GitHub with its job; then its pod ends.      *)
JobDone(w) ==
  /\ runner[w] = "busy"
  /\ runner' = [runner EXCEPT ![w] = "done"]
  /\ UNCHANGED <<row, lock, k8s, jobRow, sch, faults>>

PodSucceeds(w) ==
  /\ pod[w] = "running" /\ w \notin down /\ runner[w] = "done"
  /\ pod' = [pod EXCEPT ![w] = "succeeded"]
  /\ UNCHANGED <<row, lock, killed, down, late, age, runner, jobRow, sch, faults>>

(* The node controller taints the pod's node; nothing on it moves again.   *)
NodeDown(w) ==
  /\ Fault("node")
  /\ pod[w] \in Occupying /\ w \notin down
  /\ down' = down \union {w}
  /\ runner' = [runner EXCEPT ![w] = Disconnected(w)]
  /\ UNCHANGED <<row, lock, pod, killed, late, age, jobRow, sch>>

Ages(w) ==
  /\ \/ /\ pod[w] = "running" /\ age[w] < 2
        /\ age' = [age EXCEPT ![w] = @ + 1]
        /\ UNCHANGED late
     \/ /\ pod[w] = "pending" /\ w \notin late
        /\ late' = late \union {w}
        /\ UNCHANGED age
  /\ UNCHANGED <<row, lock, pod, killed, down, runner, jobRow, sch, faults>>

Env(w) == \/ JobRecorded(w) \/ PodStarts(w) \/ PodFails(w) \/ RunnerConnects(w)
          \/ TakesJob(w) \/ JobDone(w) \/ PodSucceeds(w) \/ NodeDown(w) \/ Ages(w)

-----------------------------------------------------------------------------
(* The iteration of scheduler s.                                           *)

Become(s, local) == sch' = [sch EXCEPT ![s] = local]
At(s, pc) == sch[s].pc = pc
Live(s) == sch[s].live
Goto(s, pc) == Become(s, [sch[s] EXCEPT !.pc = pc])

(* syncWorkersState returns, and with it go the lists it has read.         *)
LeaveSync(s) == Become(s, [sch[s] EXCEPT !.pc = "match", !.seen = Idle.seen,
                                         !.stranded = {}, !.gh = Idle.gh, !.todo = {}])

ActiveIn(view) == {w \in Worker : view[w] \in Active}

(* MarkWorker*: only an active row changes, and only in a live transaction.*)
Marked(s, w, status) ==
  IF Live(s) /\ sch[s].view[w] \in Active
    THEN [view |-> [sch[s].view EXCEPT ![w] = status],
          wrote |-> sch[s].wrote \union {w}]
    ELSE [view |-> sch[s].view, wrote |-> sch[s].wrote]

LockFreeAlways(s) == TRUE       \* mutant: no LOCK TABLE
LockFree(s) == lock = NoOne

(* BEGIN; LOCK TABLE workers.                                              *)
Lock(s) ==
  /\ At(s, "idle") /\ LockFree(s)
  /\ lock' = s
  /\ Become(s, [Idle EXCEPT !.pc = "list", !.live = TRUE, !.view = row])
  /\ UNCHANGED <<row, world, faults>>

(* ListNodes and ListPods; if one fails syncWorkersState is over.          *)
ListPods(s) ==
  /\ At(s, "list")
  /\ \/ NoFault /\ Become(s, [sch[s] EXCEPT !.pc = "read", !.seen = pod,
                                            !.stranded = down])
     \/ Fault("pods") /\ LeaveSync(s)
  /\ UNCHANGED <<row, lock, world>>

(* Phase 1: a worker without a pod is over.                                *)
OrphanSweep(status, phase) ==
  IF status \in Active /\ phase \notin Listed THEN "completed" ELSE status

(* Mutants: no guard on the status; a pod that ran too fast is forgotten.  *)
PodPhaseSyncAlways(status, phase) ==
  CASE phase = "running"   /\ status # "none" -> "running"
    [] phase = "succeeded" /\ status # "none" -> "completed"
    [] phase = "failed"    /\ status # "none" -> "failed"
    [] OTHER -> status
PodPhaseSyncRunning(status, phase) ==
  CASE phase = "running"   /\ status = "pending" -> "running"
    [] phase = "succeeded" /\ status = "running" -> "completed"
    [] phase = "failed"    /\ status = "running" -> "failed"
    [] OTHER -> status

(* Phase 2: the pod's phase is reflected onto the row.                     *)
PodPhaseSync(status, phase) ==
  CASE phase = "running"   /\ status = "pending"   -> "running"
    [] phase = "succeeded" /\ status \in Active    -> "completed"
    [] phase = "failed"    /\ status \in Active    -> "failed"
    [] OTHER -> status

Reflected(s) ==
  [w \in Worker |-> PodPhaseSync(OrphanSweep(row[w], sch[s].seen[w]), sch[s].seen[w])]

(* GetWorkersForReconcile and the two phases, which touch only the         *)
(* transaction.                                                            *)
SyncPods(s) ==
  /\ At(s, "read")
  /\ IF Live(s)
       THEN Become(s, [sch[s] EXCEPT
              !.pc = "nodes", !.stranded = {},
              !.view = Reflected(s),
              !.wrote = {w \in Worker : Reflected(s)[w] # row[w]},
              !.todo = {w \in sch[s].stranded \intersect ActiveIn(Reflected(s)) :
                           sch[s].seen[w] \in Listed}])
       ELSE LeaveSync(s)
  /\ UNCHANGED <<row, lock, world, faults>>

(* The pods are removed from Kubernetes, with all they carry.              *)
RemovePods(S) ==
  /\ pod' = [w \in Worker |-> IF w \in S /\ pod[w] # "none" THEN "gone" ELSE pod[w]]
  /\ age' = [w \in Worker |-> IF w \in S THEN 0 ELSE age[w]]
  /\ killed' = killed \ S /\ down' = down \ S /\ late' = late \ S

(* KillPod / ForceDeletePod: an error is logged and not retried.           *)
ForceDelete(w) == \/ RemovePods({w}) /\ NoFault
                  \/ UNCHANGED k8s /\ Fault("kill")

(* Mutant: a pod that has not started is left alone.                       *)
KillPodStarted(w) ==
  /\ killed' = IF pod[w] = "running" THEN killed \union {w} ELSE killed
  /\ NoFault

KillPod(w) ==
  \/ /\ killed' = IF pod[w] \in Occupying THEN killed \union {w} ELSE killed
     /\ NoFault
  \/ UNCHANGED killed /\ Fault("kill")

(* Phase 2.5, for one worker whose pod is stranded.                        *)
UnreachableNodeCheck(s, w) ==
  /\ At(s, "nodes") /\ w \in sch[s].todo
  /\ LET m == Marked(s, w, "failed") IN
       Become(s, [sch[s] EXCEPT !.todo = @ \ {w}, !.view = m.view, !.wrote = m.wrote])
  /\ IF Live(s) THEN ForceDelete(w) ELSE UNCHANGED <<k8s, faults>>
  /\ UNCHANGED <<row, lock, runner, jobRow>>

(* Phase 3 begins: with an active worker, authenticate and list GitHub's   *)
(* runners; an error of the list is an empty list.                         *)
RunnerList == [w \in Worker |-> IF runner[w] \in Registered THEN runner[w] ELSE "none"]
NoRunners  == [w \in Worker |-> "none"]

HealthChecks(s) ==
  /\ At(s, "nodes") /\ sch[s].todo = {}
  /\ LET active == ActiveIn(sch[s].view)
         visit  == {w \in active : sch[s].seen[w] \in Listed}
         with(list, todo) == Become(s, [sch[s] EXCEPT !.pc = "health", !.gh = list,
                                                      !.todo = todo])
     IN \/ ~Live(s) /\ NoFault /\ LeaveSync(s)
        \/ Live(s) /\ active = {} /\ NoFault /\ with(NoRunners, {})
        \/ Live(s) /\ active # {} /\ NoFault /\ with(RunnerList, visit)
        \/ Live(s) /\ active # {} /\ Fault("list") /\ with(NoRunners, visit)
        \/ Live(s) /\ active # {} /\ Fault("auth") /\ with(NoRunners, {})
  /\ UNCHANGED <<row, lock, world>>

(* JobExistsForPod; its error is ignored.                                  *)
JobExistsForPod(s, w) == Live(s) /\ w \in jobRow

(* Mutant: a registered runner that never comes online is waited for.      *)
UnfitOnline(s, w) ==
  \/ sch[s].view[w] = "pending" /\ w \in late
  \/ /\ sch[s].view[w] = "running"
     /\ \/ sch[s].gh[w] = "none"   /\ age[w] >= 1 /\ ~JobExistsForPod(s, w)
        \/ sch[s].gh[w] = "online" /\ age[w] = 2

(* classifyWorker: when the worker is given up.                            *)
Unfit(s, w) ==
  \/ sch[s].view[w] = "pending" /\ w \in late
  \/ /\ sch[s].view[w] = "running"
     /\ \/ sch[s].gh[w] = "none"    /\ age[w] >= 1 /\ ~JobExistsForPod(s, w)
        \/ sch[s].gh[w] = "offline" /\ age[w] >= 1
        \/ sch[s].gh[w] = "online"  /\ age[w] = 2

KeepWorker(s, w) ==
  /\ At(s, "health") /\ w \in sch[s].todo /\ ~Unfit(s, w)
  /\ Become(s, [sch[s] EXCEPT !.todo = @ \ {w}])
  /\ UNCHANGED <<row, lock, world, faults>>

(* DELETE of a runner: GitHub refuses while it runs a job.                 *)
Deletable(w) == runner[w] # "busy"
Deleted(w) == runner' = [runner EXCEPT ![w] = IF @ \in Registered THEN "deleted" ELSE @]

(* Mutant: an idle runner is killed without asking GitHub.                 *)
MustDeleteFirstOffline(s, w) == sch[s].gh[w] = "offline"

(* failAndCleanup: first the registration, if GitHub listed one ...        *)
MustDeleteFirst(s, w) == sch[s].gh[w] # "none"

GiveUp(s, w) ==
  /\ At(s, "health") /\ w \in sch[s].todo /\ Unfit(s, w)
  /\ LET kill == Become(s, [sch[s] EXCEPT !.pc = "kill", !.cur = w])
         skip == Become(s, [sch[s] EXCEPT !.todo = @ \ {w}])
     IN \/ ~MustDeleteFirst(s, w) /\ kill /\ UNCHANGED runner /\ NoFault
        \/ MustDeleteFirst(s, w) /\ Deletable(w) /\ kill /\ Deleted(w) /\ NoFault
        \/ MustDeleteFirst(s, w) /\ ~Deletable(w) /\ skip /\ UNCHANGED runner /\ NoFault
        \/ MustDeleteFirst(s, w) /\ Fault("delete") /\ skip /\ UNCHANGED runner
  /\ UNCHANGED <<row, lock, k8s, jobRow>>

(* ... then the row, then the pod.                                         *)
FailAndCleanup(s) ==
  /\ At(s, "kill")
  /\ LET w == sch[s].cur
         m == Marked(s, w, "failed")
     IN /\ Become(s, [sch[s] EXCEPT !.pc = "health", !.cur = NoOne, !.todo = @ \ {w},
                                    !.view = m.view, !.wrote = m.wrote])
        /\ KillPod(w)
  /\ UNCHANGED <<row, lock, pod, down, late, age, runner, jobRow>>

(* Phase 4, authenticated again, visits the runners of the cached list     *)
(* whose worker is terminal or unknown.                                    *)
Stale(s) == {w \in Worker : sch[s].gh[w] # "none" /\ sch[s].view[w] \notin Active}

BeginCleanup(s) ==
  /\ At(s, "health") /\ sch[s].todo = {}
  /\ LET visit(S) == Become(s, [sch[s] EXCEPT !.pc = "cleanup", !.todo = S,
                                               !.gh = Idle.gh])
     IN \/ ~Live(s) /\ LeaveSync(s) /\ NoFault
        \/ Live(s) /\ visit(Stale(s)) /\ NoFault
        \/ Live(s) /\ visit({}) /\ Fault("auth")
  /\ UNCHANGED <<row, lock, world>>

GitHubCleanup(s, w) ==
  /\ At(s, "cleanup") /\ w \in sch[s].todo
  /\ \/ Deletable(w) /\ Deleted(w) /\ NoFault
     \/ ~Deletable(w) /\ UNCHANGED runner /\ NoFault
     \/ UNCHANGED runner /\ Fault("delete")
  /\ Become(s, [sch[s] EXCEPT !.todo = @ \ {w}])
  /\ UNCHANGED <<row, lock, k8s, jobRow>>

(* Phase 5: of the pods listed as terminal, those past PodDeleteGrace.     *)
DeleteTerminalPods(s) ==
  /\ At(s, "cleanup") /\ sch[s].todo = {}
  /\ \E S \in SUBSET {w \in Worker : sch[s].seen[w] \in {"succeeded", "failed"}} :
       RemovePods(S)
  /\ LeaveSync(s)
  /\ UNCHANGED <<row, lock, runner, jobRow, faults>>

-----------------------------------------------------------------------------
(* demandMatch.                                                            *)

OccupyingPods == {w \in Worker : pod[w] \in Occupying}
(* Mutant: pods that have not started are not counted.                     *)
AvailableRunning == LET running == {w \in Worker : pod[w] = "running"} IN
  IF Cardinality(running) >= Slots THEN 0 ELSE Slots - Cardinality(running)
Available == IF Cardinality(OccupyingPods) >= Slots
               THEN 0 ELSE Slots - Cardinality(OccupyingPods)

(* GetPendingJobs (some of the active jobs) and AvailableSlots.            *)
DemandMatch(s) ==
  /\ At(s, "match")
  /\ IF Live(s)
       THEN \E pending \in 0..MaxDemand :
              Become(s, [sch[s] EXCEPT !.pc = "provision", !.slots = Available,
                                       !.tries = pending])
       ELSE Goto(s, "end")
  /\ UNCHANGED <<row, lock, world, faults>>

(* Mutant: the loop does not look at the slots left.                       *)
PopsAll(s) == At(s, "provision") /\ sch[s].tries > 0
Pops(s) == At(s, "provision") /\ sch[s].tries > 0 /\ sch[s].slots > 0

(* GetPoolDemand and the cap on the entity's workers.                      *)
BelowCapOrAt(n) == n <= MaxWorkers       \* mutant: off by one
BelowCap(n) == n < MaxWorkers
Wanted(s, jobs) ==
  LET n == Cardinality(ActiveIn(sch[s].view)) IN n < jobs /\ BelowCap(n)

(* A random name that nothing carries yet.                                 *)
Fresh(s, w) == /\ row[w] = "none" /\ pod[w] = "none" /\ runner[w] = "none"
               /\ \A t \in Scheduler : sch[t].view[w] = "none"

(* Nothing wanted, an error of the database, or no free name found.        *)
SkipJob(s) ==
  /\ Pops(s)
  /\ \/ ~Live(s)
     \/ \E jobs \in 0..MaxDemand : ~Wanted(s, jobs)
     \/ \A w \in Worker : ~Fresh(s, w)
  /\ Become(s, [sch[s] EXCEPT !.tries = @ - 1])
  /\ UNCHANGED <<row, lock, world, faults>>

(* reserveRunnerName: AddWorker, in the transaction.                       *)
ReserveRunnerName(s, w) ==
  /\ Pops(s) /\ Live(s) /\ Fresh(s, w) /\ \E jobs \in 0..MaxDemand : Wanted(s, jobs)
  /\ Become(s, [sch[s] EXCEPT !.pc = "jit", !.cur = w, !.tries = @ - 1,
                              !.view[w] = "pending", !.wrote = @ \union {w}])
  /\ UNCHANGED <<row, lock, world, faults>>

Provisioned(s, status, slots, tries) ==
  LET m == Marked(s, sch[s].cur, status) IN
  Become(s, [sch[s] EXCEPT !.pc = "provision", !.cur = NoOne, !.slots = slots,
                           !.tries = tries, !.view = m.view, !.wrote = m.wrote])

(* provisionRunner: the JIT configuration registers the runner, offline.   *)
(* A rate limit backs the entity off and does not use the slot.            *)
CreateJIT(s) ==
  /\ At(s, "jit")
  /\ \/ /\ NoFault /\ Goto(s, "create")
        /\ runner' = [runner EXCEPT ![sch[s].cur] = "offline"]
     \/ /\ Fault("limit") /\ UNCHANGED runner
        /\ Provisioned(s, "failed", sch[s].slots, 0)
     \/ /\ Fault("jit") /\ UNCHANGED runner
        /\ Provisioned(s, "failed", sch[s].slots - 1, sch[s].tries)
  /\ UNCHANGED <<row, lock, k8s, jobRow>>

(* An error of the create call may hide that the pod exists.               *)
CreatePod(s) ==
  /\ At(s, "create")
  /\ LET w == sch[s].cur
         created == pod' = [pod EXCEPT ![w] = "pending"]
     IN \/ /\ NoFault /\ created
           /\ Provisioned(s, sch[s].view[w], sch[s].slots - 1, sch[s].tries)
        \/ /\ Fault("create") /\ (created \/ UNCHANGED pod)
           /\ Provisioned(s, "failed", sch[s].slots - 1, sch[s].tries)
  /\ UNCHANGED <<row, lock, killed, down, late, age, runner, jobRow>>

EndMatch(s) ==
  /\ At(s, "provision") /\ ~Pops(s)
  /\ Goto(s, "end")
  /\ UNCHANGED <<row, lock, world, faults>>

-----------------------------------------------------------------------------
(* The end of the transaction, and the ways it is lost.                    *)

Release(s) == lock' = IF lock = s THEN NoOne ELSE lock

Commit(s) ==
  /\ At(s, "end") /\ Live(s)
  /\ row' = [w \in Worker |-> IF w \in sch[s].wrote THEN sch[s].view[w] ELSE row[w]]
  /\ Release(s) /\ Become(s, Idle)
  /\ UNCHANGED <<world, faults>>

Rollback(s) ==
  /\ At(s, "end") /\ ~Live(s)
  /\ Release(s) /\ Become(s, Idle)
  /\ UNCHANGED <<row, world, faults>>

(* The process dies.                                                       *)
Crash(s) ==
  /\ ~At(s, "idle") /\ Fault("crash")
  /\ Release(s) /\ Become(s, Idle)
  /\ UNCHANGED <<row, world>>

(* A statement fails: the transaction is aborted but keeps its lock until  *)
(* it ends.  Or the connection is lost: the server rolls back and frees    *)
(* the lock at once.  Either way the iteration runs on.                    *)
LoseTransaction(s) ==
  /\ Live(s)
  /\ \/ Fault("sql") /\ UNCHANGED lock
     \/ Fault("conn") /\ Release(s)
  /\ Become(s, [sch[s] EXCEPT !.live = FALSE])
  /\ UNCHANGED <<row, world>>

-----------------------------------------------------------------------------
SchedStep(s) ==
  \/ Lock(s) \/ ListPods(s) \/ SyncPods(s) \/ HealthChecks(s) \/ FailAndCleanup(s)
  \/ BeginCleanup(s) \/ DeleteTerminalPods(s) \/ DemandMatch(s) \/ SkipJob(s)
  \/ CreateJIT(s) \/ CreatePod(s) \/ EndMatch(s) \/ Commit(s) \/ Rollback(s)
  \/ \E w \in Worker : \/ UnreachableNodeCheck(s, w) \/ KeepWorker(s, w) \/ GiveUp(s, w)
                       \/ GitHubCleanup(s, w) \/ ReserveRunnerName(s, w)

Next ==
  \/ \E w \in Worker : Env(w)
  \/ \E s \in Scheduler : SchedStep(s) \/ Crash(s) \/ LoseTransaction(s)

Spec == Init /\ [][Next]_vars

(* Each scheduler's loop runs for ever, time passes, and Kubernetes        *)
(* enforces a deadline and ends the pod of a finished runner.              *)
FairSpec ==
  /\ Spec
  /\ \A s \in Scheduler : WF_vars(SchedStep(s))
  /\ \A w \in Worker : WF_vars(Ages(w)) /\ WF_vars(Deadline(w)) /\ WF_vars(PodSucceeds(w))

-----------------------------------------------------------------------------
(* Properties.                                                             *)

(* OrphanSweep and PodPhaseSync decide from a listing that is stale by the *)
(* time they write; still no worker is recorded completed while its pod    *)
(* holds a slot.                                                           *)
LiveWorkerNotCompleted ==
  \A w \in Worker : row[w] = "completed" => pod[w] \notin Occupying

(* demandMatch never creates more pods than the pool has slots, counting   *)
(* those of failed provisioning and of other schedulers.                   *)
CapacityRespected == Cardinality(OccupyingPods) <= Slots

(* The cap on an entity's active workers.                                  *)
CapRespected == Cardinality(ActiveIn(row)) <= MaxWorkers

(* Rows move only forward, also across transactions that overlap.          *)
Forward == {<<"none", "pending">>, <<"none", "failed">>}
             \union ({"pending"} \X ({"running"} \union Terminal))
             \union ({"running"} \X Terminal)
RowsForwardOnly ==
  [][\A w \in Worker : row'[w] # row[w] => <<row[w], row'[w]>> \in Forward]_row

(* failAndCleanup never kills the pod of a runner that is executing a job. *)
BusyRunnerNotKilled ==
  [][\A w \in Worker : w \in killed' \ killed => runner[w] # "busy"]_vars

(* A failed worker gives its slot back, unless its node is lost meanwhile. *)
FailedWorkerFreesSlot ==
  \A w \in Worker : (row[w] = "failed") ~> (pod[w] \notin Occupying \/ w \in down)

(* The row of a pod that is over becomes terminal.                         *)
PodOver(w) == pod[w] \in {"succeeded", "failed", "gone"}
OverPodSettlesRow ==
  \A w \in Worker : (row[w] \in Active /\ PodOver(w)) ~> (row[w] \in Terminal)

(* No worker stays active for ever without running a job: one whose pod    *)
(* does not start, whose runner does not register or is never given a job, *)
(* or whose node is lost, is given up.                                     *)
IdleWorkerGivenUp ==
  \A w \in Worker :
     (row[w] \in Active) ~> (row[w] \in Terminal \/ runner[w] \in {"busy", "done"})

=============================================================================
