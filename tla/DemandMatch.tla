----------------------------- MODULE DemandMatch -----------------------------
(***************************************************************************)
(* demandMatch over several entities and pools: which pending job gets the *)
(* next slot.  Each iteration groups the pending jobs by pool, and in each *)
(* pool pops jobs from a fair queue -- the entity with the fewest pods     *)
(* first, its oldest job first -- as long as slots are left.               *)
(*                                                                         *)
(* Demand is counted per entity and label set; what GitHub runs on a       *)
(* runner is decided by the target the runner is registered at (the        *)
(* organization, or one repository of a personal account) and by labels.   *)
(*                                                                         *)
(* Workers.tla has the transaction, the phases of syncWorkersState and     *)
(* the faults; here an iteration commits, a row follows its job at once,   *)
(* and syncWorkersState is what BeginMatch does first.                     *)
(***************************************************************************)
EXTENDS Naturals, FiniteSets

CONSTANTS
  Job, Worker,  \* ids, used again when nothing refers to them any more
  Entity, Pool,
  Class,        \* what jobs ask for: [entity, target, labels, pool]
  NoJob, NoCap,
  Slots,        \* slots of each pool
  MaxWorkers,   \* cap of each entity, or NoCap
  Limited,      \* entities GitHub may rate limit whenever it likes
  MaxFailures   \* bound: failed calls, or NoCap

ASSUME ConstantsAssumption ==
  /\ IsFiniteSet(Job) /\ IsFiniteSet(Worker) /\ Class # {} /\ Pool # {}
  /\ \A c \in Class : c.entity \in Entity /\ c.pool \in Pool
  /\ NoJob \notin Job /\ NoCap \notin Nat
  /\ Slots \in [Pool -> Nat]
  /\ MaxWorkers \in [Entity -> Nat \union {NoCap}]
  /\ Limited \subseteq Entity
  /\ MaxFailures \in Nat \union {NoCap}

VARIABLES
  status, class, age,    \* jobs; age 1 is the oldest, 0 of no job
  phase, wclass, task,   \* workers: row, pod and runner; the job it runs
  pc,                    \* "idle", "pools" (choose one), "pop" (its queue)
  pend, rank,            \* GetPendingJobs, and the order of its rows
  pools, pool,           \* pools still to visit; the one being visited
  queue, slots,          \* its jobs not yet popped; its slots left
  active, had,           \* pods per entity there: as counted on, as listed
  limited,               \* entities backed off for this iteration
  failures

jobVars    == <<status, class, age>>
workerVars == <<phase, wclass, task>>
poolVars   == <<pool, queue, slots, active, had>>
schedVars  == <<pc, pend, rank, pools, poolVars, limited>>
vars       == <<jobVars, workerVars, schedVars, failures>>

Pending == {j \in Job : status[j] = "pending"}
ActiveJobs == {j \in Job : status[j] # "none"}

(* "idle": waiting for a job; "stale": for too long; "ended": the pod is   *)
(* over, the row not yet; "dying": the row has failed, the pod not ended.  *)
Phases    == {"none", "idle", "stale", "busy", "ended", "dying"}
Waiting   == {"idle", "stale"}
RowActive == {"idle", "stale", "busy", "ended"}
Occupying == {"idle", "stale", "busy", "dying"}

TypeOK ==
  /\ status \in [Job -> {"none", "pending", "running"}]
  /\ class \in [Job -> Class] /\ age \in [Job -> Nat]
  /\ phase \in [Worker -> Phases] /\ wclass \in [Worker -> Class]
  /\ task \in [Worker -> Job \union {NoJob}]
  /\ pc \in {"idle", "pools", "pop"}
  /\ pend \subseteq Job /\ rank \in [Job -> Nat]
  /\ pools \subseteq Pool /\ pool \in Pool
  /\ queue \subseteq pend /\ slots \in Nat
  /\ active \in [Entity -> Nat] /\ had \in [Entity -> Nat]
  /\ limited \subseteq Entity
  /\ failures \in Nat

Init ==
  /\ status = [j \in Job |-> "none"] /\ age = [j \in Job |-> 0]
  /\ class \in [Job -> {CHOOSE c \in Class : TRUE}]
  /\ phase = [w \in Worker |-> "none"] /\ task = [w \in Worker |-> NoJob]
  /\ wclass \in [Worker -> {CHOOSE c \in Class : TRUE}]
  /\ pc = "idle" /\ pend = {} /\ rank = age
  /\ pools = {} /\ pool = (CHOOSE p \in Pool : TRUE) /\ queue = {} /\ slots = 0
  /\ active = [e \in Entity |-> 0] /\ had = active
  /\ limited = {} /\ failures = 0

-----------------------------------------------------------------------------
(* Jobs and runners.                                                       *)

Arrives(j, c) ==
  /\ status[j] = "none" /\ j \notin pend
  /\ status' = [status EXCEPT ![j] = "pending"]
  /\ class' = [class EXCEPT ![j] = c]
  /\ age' = [age EXCEPT ![j] = Cardinality(ActiveJobs) + 1]
  /\ UNCHANGED <<workerVars, schedVars, failures>>

(* The row of job j becomes terminal; ages close up.                       *)
Leaves(j) ==
  /\ status' = [status EXCEPT ![j] = "none"]
  /\ age' = [k \in Job |-> IF k = j THEN 0
                           ELSE IF age[k] > age[j] THEN age[k] - 1 ELSE age[k]]
  /\ UNCHANGED class

Cancelled(j) ==
  /\ status[j] = "pending"
  /\ Leaves(j)
  /\ UNCHANGED <<workerVars, schedVars, failures>>

(* GitHub gives a job to a runner of its target that has all its labels.   *)
CanRun(w, j) == /\ wclass[w].target = class[j].target
                /\ class[j].labels \subseteq wclass[w].labels

Takes(w, j) ==
  /\ phase[w] \in Waiting /\ status[j] = "pending" /\ CanRun(w, j)
  /\ status' = [status EXCEPT ![j] = "running"]
  /\ phase' = [phase EXCEPT ![w] = "busy"]
  /\ task' = [task EXCEPT ![w] = j]
  /\ UNCHANGED <<class, age, wclass, schedVars, failures>>

Finishes(w) ==
  /\ phase[w] = "busy"
  /\ Leaves(task[w])
  /\ phase' = [phase EXCEPT ![w] = "ended"]
  /\ task' = [task EXCEPT ![w] = NoJob]
  /\ UNCHANGED <<wclass, schedVars, failures>>

(* A runner that has waited for RunnerPendingTimeout; a pod that has been  *)
(* killed is over.                                                         *)
Ages(w) ==
  /\ \/ phase[w] = "idle"  /\ phase' = [phase EXCEPT ![w] = "stale"]
     \/ phase[w] = "dying" /\ phase' = [phase EXCEPT ![w] = "none"]
  /\ UNCHANGED <<jobVars, wclass, task, schedVars, failures>>

-----------------------------------------------------------------------------
(* demandMatch.                                                            *)

Ent(j) == class[j].entity

(* GetPoolDemand: active jobs and workers of an entity with a label set.   *)
JobCount(c)    == Cardinality({j \in ActiveJobs :
                     class[j].entity = c.entity /\ class[j].labels = c.labels})
WorkerCount(c) == Cardinality({w \in Worker : phase[w] \in RowActive
                     /\ wclass[w].entity = c.entity /\ wclass[w].labels = c.labels})
(* Mutant: the label set is forgotten.                                     *)
DemandMetByEntity(j) ==
  Cardinality({k \in ActiveJobs : Ent(k) = Ent(j)})
    <= Cardinality({w \in Worker : phase[w] \in RowActive /\ wclass[w].entity = Ent(j)})
DemandMet(j) == JobCount(class[j]) <= WorkerCount(class[j])

(* GetTotalWorkersForEntity, over all pools.                               *)
RowsOf(e) == {w \in Worker : phase[w] \in RowActive /\ wclass[w].entity = e}
(* Mutant: the cap counts the workers of the pool only.                    *)
AtCapInPool(e) ==
  /\ MaxWorkers[e] # NoCap
  /\ Cardinality({w \in RowsOf(e) : wclass[w].pool = pool}) >= MaxWorkers[e]
AtCap(e) == MaxWorkers[e] # NoCap /\ Cardinality(RowsOf(e)) >= MaxWorkers[e]

(* AvailableSlots: pods that hold a slot of the pool, in all and by entity.*)
PodsIn(p) == {w \in Worker : phase[w] \in Occupying /\ wclass[w].pool = p}
PodsOf(e, p) == {w \in PodsIn(p) : wclass[w].entity = e}
(* Mutant: only workers whose row is active hold a slot.                   *)
AvailableByRows(p) ==
  LET n == Cardinality({w \in Worker : phase[w] \in RowActive /\ wclass[w].pool = p})
  IN IF n >= Slots[p] THEN 0 ELSE Slots[p] - n
Available(p) == LET n == Cardinality(PodsIn(p)) IN
  IF n >= Slots[p] THEN 0 ELSE Slots[p] - n

(* GetPendingJobs orders its rows by creation.                             *)
Position(j) == IF j \in Pending THEN Cardinality({k \in Pending : age[k] <= age[j]}) ELSE 0

(* syncWorkersState settles the workers that are over and gives up those   *)
(* that have waited too long; then GetPendingJobs.                         *)
BeginMatch ==
  /\ pc = "idle"
  /\ phase' = [w \in Worker |-> CASE phase[w] = "ended" -> "none"
                                  [] phase[w] = "stale" -> "dying"
                                  [] OTHER -> phase[w]]
  /\ IF Pending = {}
       THEN UNCHANGED schedVars
       ELSE /\ pc' = "pools" /\ pend' = Pending
            /\ rank' = [j \in Job |-> Position(j)]
            /\ pools' = {class[j].pool : j \in Pending}
            /\ limited' = {}
            /\ UNCHANGED poolVars
  /\ UNCHANGED <<jobVars, wclass, task, failures>>

Fails == IF MaxFailures = NoCap THEN UNCHANGED failures
         ELSE failures < MaxFailures /\ failures' = failures + 1

(* Go visits the pools in any order.                                       *)
PickPool(p) ==
  /\ pc = "pools" /\ p \in pools
  /\ pc' = "pop" /\ pools' = pools \ {p}
  /\ pool' = p
  /\ queue' = {j \in pend : class[j].pool = p}
  /\ slots' = Available(p)
  /\ active' = [e \in Entity |-> Cardinality(PodsOf(e, p))] /\ had' = active'
  /\ UNCHANGED <<jobVars, workerVars, pend, rank, limited, failures>>

PoolError(p) ==
  /\ pc = "pools" /\ p \in pools
  /\ Fails
  /\ pools' = pools \ {p}
  /\ UNCHANGED <<jobVars, workerVars, pc, pend, rank, poolVars, limited>>

(* fairJobQueue.pop: the job of the entity with the fewest pods; of those, *)
(* the oldest.  Mutants: the youngest of them; the most served entity.     *)
PoppedYoungest(j) ==
  j \in queue /\ \A k \in queue :
    \/ active[Ent(j)] < active[Ent(k)]
    \/ active[Ent(j)] = active[Ent(k)] /\ rank[j] >= rank[k]
PoppedMostServed(j) ==
  j \in queue /\ \A k \in queue : active[Ent(j)] >= active[Ent(k)]
Popped(j) ==
  j \in queue /\ \A k \in queue :
    \/ active[Ent(j)] < active[Ent(k)]
    \/ active[Ent(j)] = active[Ent(k)] /\ rank[j] <= rank[k]

Dequeue(j) == /\ Popped(j)
              /\ queue' = queue \ {j}
              /\ UNCHANGED <<jobVars, pc, pend, rank, pools, pool, had>>
(* Mutant: the loop does not stop when the slots are used up.              *)
PopWithoutSlots(j) == pc = "pop" /\ Dequeue(j)
Pop(j) == pc = "pop" /\ slots > 0 /\ Dequeue(j)

(* reserveRunnerName finds no name that is free.                           *)
NoName == \A w \in Worker : phase[w] # "none"
Wanted(j) == Ent(j) \notin limited /\ ~DemandMet(j) /\ ~AtCap(Ent(j)) /\ ~NoName

Skip(j) ==
  /\ Pop(j) /\ ~Wanted(j)
  /\ UNCHANGED <<workerVars, slots, active, limited, failures>>

Consume(e) == slots' = slots - 1 /\ active' = [active EXCEPT ![e] = @ + 1]

Provision(j, w) ==
  /\ Pop(j) /\ Wanted(j) /\ phase[w] = "none"
  /\ phase' = [phase EXCEPT ![w] = "idle"]
  /\ wclass' = [wclass EXCEPT ![w] = class[j]]
  /\ Consume(Ent(j))
  /\ UNCHANGED <<task, limited, failures>>

(* The row is failed at once; the slot counts as used.                     *)
ProvisionFails(j) ==
  /\ Pop(j) /\ Wanted(j)
  /\ Fails
  /\ Consume(Ent(j))
  /\ UNCHANGED <<workerVars, limited>>

(* The entity is backed off; the slot is not used.                         *)
RateLimited(j) ==
  /\ Pop(j) /\ Wanted(j)
  /\ Ent(j) \in Limited
  /\ limited' = limited \union {Ent(j)}
  /\ UNCHANGED <<workerVars, slots, active, failures>>

(* Mutant: a rate limited entity ends the pool's loop.                     *)
PoolDoneWhenLimited == queue = {} \/ slots = 0 \/ limited # {}
PoolDone == queue = {} \/ slots = 0

LeavePool ==
  /\ pc = "pop" /\ PoolDone
  /\ pc' = "pools" /\ queue' = {} /\ slots' = 0
  /\ active' = [e \in Entity |-> 0] /\ had' = active'
  /\ UNCHANGED <<jobVars, workerVars, pend, rank, pools, pool, limited, failures>>

EndMatch ==
  /\ pc = "pools" /\ pools = {}
  /\ pc' = "idle" /\ pend' = {} /\ limited' = {} /\ rank' = [j \in Job |-> 0]
  /\ UNCHANGED <<jobVars, workerVars, pools, poolVars, failures>>

-----------------------------------------------------------------------------
Env == \/ \E j \in Job : Cancelled(j) \/ \E c \in Class : Arrives(j, c)
       \/ \E w \in Worker : \/ Finishes(w) \/ Ages(w)
                            \/ \E j \in Job : Takes(w, j)

SchedStep ==
  \/ BeginMatch \/ LeavePool \/ EndMatch
  \/ \E p \in Pool : PickPool(p) \/ PoolError(p)
  \/ \E j \in Job : \/ Skip(j) \/ ProvisionFails(j) \/ RateLimited(j)
                    \/ \E w \in Worker : Provision(j, w)

Next == Env \/ SchedStep

Spec == Init /\ [][Next]_vars

-----------------------------------------------------------------------------
(* Properties.                                                             *)

(* No pod is created beyond the slots of its pool, though slots are read   *)
(* once and pods of ended and killed workers come and go meanwhile.        *)
PoolCapacity == \A p \in Pool : Cardinality(PodsIn(p)) <= Slots[p]

(* An entity's cap holds over all pools together.                          *)
EntityCap ==
  \A e \in Entity : MaxWorkers[e] # NoCap => Cardinality(RowsOf(e)) <= MaxWorkers[e]

(* An entity that was given a slot in this visit is never more than one    *)
(* pod ahead of an entity whose jobs still wait in the queue.              *)
FairShare ==
  pc = "pop" => \A e \in Entity : \A j \in queue :
    active[e] > had[e] => active[e] <= active[Ent(j)] + 1

(* Within an entity jobs are tried oldest first.                           *)
FifoWithinEntity ==
  pc = "pop" => \A j \in queue, k \in pend :
    class[k].pool = pool /\ Ent(k) = Ent(j) /\ rank[j] < rank[k] => k \in queue

(* A pending job whose demand is met has a waiting runner that can take    *)
(* it, or a worker whose end the next syncWorkersState will record.        *)
MetDemandHasRunner ==
  \A j \in Pending : DemandMet(j) =>
    \E w \in Worker :
      \/ phase[w] \in Waiting /\ CanRun(w, j)
      \/ phase[w] = "ended" /\ wclass[w].entity = Ent(j)
                            /\ wclass[w].labels = class[j].labels

(* Every job of an entity GitHub does not rate limit stops being pending,  *)
(* whatever the other entities queue, and however they are limited: under  *)
(* the fairness SchedulerLoop.tla states.                                  *)
JobServed ==
  \A j \in Job :
    (status[j] = "pending" /\ Ent(j) \notin Limited) ~> (status[j] # "pending")

=============================================================================
