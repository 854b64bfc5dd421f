-------------------------- MODULE DemandMatchProofs --------------------------
(***************************************************************************)
(* What demandMatch keeps for any number of jobs, workers, entities and    *)
(* pools.  Every action but Provision leaves fewer pods in a pool and      *)
(* fewer rows of an entity, or as many; Provision adds one of each where   *)
(* the slots read for the visit and the cap allow it.                      *)
(*                                                                         *)
(* MetDemandHasRunner compares counts of jobs and of workers, so it needs  *)
(* that a busy worker runs a job of its own, which it may run              *)
(* (BusyRunsItsJob), and that what a worker may run is counted with it     *)
(* (Pure, of the class of a job; Unmixed, of all classes).                 *)
(***************************************************************************)
EXTENDS DemandMatch, FiniteSetTheorems, TLAPS

BusyHasJob == \A w \in Worker : phase[w] = "busy" => task[w] \in Job

(* The queue is empty between visits, and holds jobs of the pool visited.  *)
QueueOfPool == /\ pc # "pop" => queue = {}
               /\ \A j \in queue : class[j].pool = pool

Room == pc = "pop" => Cardinality(PodsIn(pool)) + slots <= Slots[pool]

IInv == /\ TypeOK /\ BusyHasJob /\ QueueOfPool
        /\ FairShare /\ FifoWithinEntity
        /\ PoolCapacity /\ Room /\ EntityCap

-----------------------------------------------------------------------------
(* Helpers.                                                                *)

LEMMA ClassFields ==
  ASSUME NEW c \in Class PROVE c.entity \in Entity /\ c.pool \in Pool
BY ConstantsAssumption

LEMMA WorkerSetsFinite ==
  ASSUME NEW S \in SUBSET Worker PROVE IsFiniteSet(S) /\ Cardinality(S) \in Nat
BY ConstantsAssumption, FS_Subset, FS_CardinalityType

LEMMA FewerWorkers ==
  ASSUME NEW T \in SUBSET Worker, NEW S \in SUBSET T
  PROVE  Cardinality(S) \in Nat /\ Cardinality(S) <= Cardinality(T)
BY WorkerSetsFinite, FS_Subset, FS_CardinalityType

LEMMA OneMoreWorker ==
  ASSUME NEW S \in SUBSET Worker, NEW w \in Worker
  PROVE  Cardinality(S \union {w}) <= Cardinality(S) + 1
<1>1. IsFiniteSet(S) /\ Cardinality(S) \in Nat
  BY WorkerSetsFinite
<1> QED BY <1>1, FS_AddElement

LEMMA PodsAndRows ==
  /\ \A p : PodsIn(p) \in SUBSET Worker
  /\ \A e, p : PodsOf(e, p) \in SUBSET Worker
  /\ \A e : RowsOf(e) \in SUBSET Worker
BY DEF PodsIn, PodsOf, RowsOf

(* AvailableSlots leaves room for the pods that hold a slot.               *)
LEMMA AvailableRoom ==
  ASSUME TypeOK, PoolCapacity, NEW p \in Pool
  PROVE  /\ Available(p) \in Nat
         /\ Cardinality(PodsIn(p)) + Available(p) <= Slots[p]
<1>1. Cardinality(PodsIn(p)) \in Nat /\ Slots[p] \in Nat
  BY WorkerSetsFinite, PodsAndRows, ConstantsAssumption
<1> QED BY <1>1 DEF Available, PoolCapacity

(* Closing up the ages of the jobs keeps them natural numbers.             *)
LEMMA LeavesType ==
  ASSUME TypeOK, NEW j \in Job, Leaves(j)
  PROVE  /\ status' \in [Job -> {"none", "pending", "running"}]
         /\ class' = class /\ age' \in [Job -> Nat]
<1>1. \A k \in Job : age[k] \in Nat /\ age[j] \in Nat
  BY DEF TypeOK
<1> QED BY <1>1 DEF TypeOK, Leaves

-----------------------------------------------------------------------------
(* A step that leaves demandMatch's variables alone.                       *)

LEMMA QuietStep ==
  ASSUME IInv, TypeOK', BusyHasJob', UNCHANGED schedVars,
         \A j \in pend : class'[j] = class[j],
         \A p \in Pool : PodsIn(p)' \subseteq PodsIn(p),
         \A e \in Entity : RowsOf(e)' \subseteq RowsOf(e)
  PROVE  IInv'
<1>1. QueueOfPool' /\ FairShare' /\ FifoWithinEntity'
  BY DEF IInv, QueueOfPool, FairShare, FifoWithinEntity, TypeOK, schedVars, poolVars, Ent
<1>2. \A p \in Pool : Cardinality(PodsIn(p)') \in Nat /\ Cardinality(PodsIn(p)) \in Nat
                      /\ Cardinality(PodsIn(p)') <= Cardinality(PodsIn(p))
  BY FewerWorkers, WorkerSetsFinite, PodsAndRows
<1>3. PoolCapacity'
  BY <1>2, ConstantsAssumption DEF IInv, PoolCapacity
<1>4. Room'
  BY <1>2, ConstantsAssumption DEF IInv, Room, TypeOK, schedVars, poolVars
<1>5. \A e \in Entity : Cardinality(RowsOf(e)') \in Nat /\ Cardinality(RowsOf(e)) \in Nat
                      /\ Cardinality(RowsOf(e)') <= Cardinality(RowsOf(e))
  BY FewerWorkers, WorkerSetsFinite, PodsAndRows
<1>6. EntityCap'
  BY <1>5, ConstantsAssumption DEF IInv, EntityCap
<1> QED BY <1>1, <1>3, <1>4, <1>6 DEF IInv

LEMMA JobsAndRunnersPreserve == ASSUME IInv, Env PROVE IInv'
<1> USE DEF workerVars
<1>1. ASSUME NEW j \in Job, Cancelled(j) PROVE IInv'
  <2>1. TypeOK' /\ BusyHasJob'
    BY <1>1, LeavesType DEF Cancelled, IInv, TypeOK, BusyHasJob, schedVars, poolVars
  <2>2. /\ \A p \in Pool : PodsIn(p)' = PodsIn(p)
        /\ \A e \in Entity : RowsOf(e)' = RowsOf(e)
    BY <1>1 DEF Cancelled, PodsIn, RowsOf
  <2> QED BY <1>1, <2>1, <2>2, QuietStep, LeavesType DEF Cancelled, IInv, Leaves
<1>2. ASSUME NEW j \in Job, NEW c \in Class, Arrives(j, c) PROVE IInv'
  <2>1. Cardinality(ActiveJobs) \in Nat
    BY ConstantsAssumption, FS_Subset, FS_CardinalityType DEF ActiveJobs
  <2>2. TypeOK' /\ BusyHasJob'
    BY <1>2, <2>1 DEF Arrives, IInv, TypeOK, BusyHasJob, schedVars, poolVars
  <2>3. /\ \A p \in Pool : PodsIn(p)' = PodsIn(p)
        /\ \A e \in Entity : RowsOf(e)' = RowsOf(e)
    BY <1>2 DEF Arrives, PodsIn, RowsOf
  <2>4. \A k \in pend : class'[k] = class[k]
    BY <1>2 DEF Arrives, IInv, TypeOK
  <2> QED BY <1>2, <2>2, <2>3, <2>4, QuietStep DEF Arrives
<1>3. ASSUME NEW w \in Worker, NEW j \in Job, Takes(w, j) PROVE IInv'
  <2>1. TypeOK' /\ BusyHasJob'
    BY <1>3 DEF Takes, IInv, TypeOK, BusyHasJob, Phases, schedVars, poolVars
  <2>2. /\ \A p \in Pool : PodsIn(p)' \subseteq PodsIn(p)
        /\ \A e \in Entity : RowsOf(e)' \subseteq RowsOf(e)
    BY <1>3 DEF Takes, Waiting, PodsIn, RowsOf, Occupying, RowActive, IInv, TypeOK
  <2> QED BY <1>3, <2>1, <2>2, QuietStep DEF Takes
<1>4. ASSUME NEW w \in Worker, Finishes(w) PROVE IInv'
  <2>1. task[w] \in Job
    BY <1>4 DEF Finishes, IInv, BusyHasJob
  <2>2. TypeOK' /\ BusyHasJob' /\ class' = class
    BY <1>4, <2>1, LeavesType
    DEF Finishes, IInv, TypeOK, BusyHasJob, Phases, schedVars, poolVars
  <2>3. /\ \A p \in Pool : PodsIn(p)' \subseteq PodsIn(p)
        /\ \A e \in Entity : RowsOf(e)' \subseteq RowsOf(e)
    BY <1>4 DEF Finishes, PodsIn, RowsOf, Occupying, RowActive, IInv, TypeOK
  <2> QED BY <1>4, <2>2, <2>3, QuietStep DEF Finishes
<1>5. ASSUME NEW w \in Worker, Ages(w) PROVE IInv'
  <2>1. TypeOK' /\ BusyHasJob'
    BY <1>5 DEF Ages, IInv, TypeOK, BusyHasJob, Phases, jobVars, schedVars, poolVars
  <2>2. /\ \A p \in Pool : PodsIn(p)' \subseteq PodsIn(p)
        /\ \A e \in Entity : RowsOf(e)' \subseteq RowsOf(e)
    BY <1>5 DEF Ages, PodsIn, RowsOf, Occupying, RowActive, IInv, TypeOK
  <2> QED BY <1>5, <2>1, <2>2, QuietStep DEF Ages, jobVars
<1> QED BY <1>1, <1>2, <1>3, <1>4, <1>5 DEF Env

-----------------------------------------------------------------------------
(* Steps between visits to pools: no queue, so nothing to be unfair to.    *)

LEMMA BetweenVisits ==
  ASSUME IInv, TypeOK', BusyHasJob', pc' # "pop", queue' = {},
         \A p \in Pool : PodsIn(p)' \subseteq PodsIn(p),
         \A e \in Entity : RowsOf(e)' \subseteq RowsOf(e)
  PROVE  IInv'
<1>1. QueueOfPool' /\ FairShare' /\ FifoWithinEntity' /\ Room'
  BY DEF QueueOfPool, FairShare, FifoWithinEntity, Room
<1>2. \A p \in Pool : Cardinality(PodsIn(p)') \in Nat /\ Cardinality(PodsIn(p)) \in Nat
                      /\ Cardinality(PodsIn(p)') <= Cardinality(PodsIn(p))
  BY FewerWorkers, WorkerSetsFinite, PodsAndRows
<1>3. \A e \in Entity : Cardinality(RowsOf(e)') \in Nat /\ Cardinality(RowsOf(e)) \in Nat
                      /\ Cardinality(RowsOf(e)') <= Cardinality(RowsOf(e))
  BY FewerWorkers, WorkerSetsFinite, PodsAndRows
<1>4. PoolCapacity'
  BY <1>2, ConstantsAssumption DEF IInv, PoolCapacity
<1>5. EntityCap'
  BY <1>3, ConstantsAssumption DEF IInv, EntityCap
<1> QED BY <1>1, <1>4, <1>5 DEF IInv

LEMMA OutsidePreserves ==
  ASSUME IInv, BeginMatch \/ LeavePool \/ EndMatch \/ \E p \in Pool : PoolError(p)
  PROVE  IInv'
<1> USE DEF schedVars, poolVars, jobVars, workerVars
<1>1. CASE BeginMatch
  <2>1. /\ phase' \in [Worker -> Phases]
        /\ \A w \in Worker : phase'[w] = "busy" => phase[w] = "busy"
    BY <1>1 DEF BeginMatch, IInv, TypeOK, Phases
  <2>2. Pending \subseteq Job /\ {class[j].pool : j \in Pending} \subseteq Pool
    BY ClassFields DEF Pending, IInv, TypeOK
  <2>3. \A j \in Job : Position(j) \in Nat
    BY <2>2, ConstantsAssumption, FS_Subset, FS_CardinalityType DEF Position
  <2>4. TypeOK'
    BY <1>1, <2>1, <2>2, <2>3 DEF BeginMatch, IInv, TypeOK, QueueOfPool
  <2>5. BusyHasJob' /\ pc' # "pop" /\ queue' = {}
    BY <1>1, <2>1 DEF BeginMatch, IInv, BusyHasJob, QueueOfPool
  <2>6. /\ \A p \in Pool : PodsIn(p)' \subseteq PodsIn(p)
        /\ \A e \in Entity : RowsOf(e)' \subseteq RowsOf(e)
    BY <1>1 DEF BeginMatch, PodsIn, RowsOf, Occupying, RowActive
  <2> QED BY <2>4, <2>5, <2>6, BetweenVisits
<1>2. CASE LeavePool
  <2>1. TypeOK' /\ BusyHasJob' /\ pc' # "pop" /\ queue' = {}
    BY <1>2 DEF LeavePool, IInv, TypeOK, BusyHasJob
  <2>2. /\ \A p \in Pool : PodsIn(p)' = PodsIn(p)
        /\ \A e \in Entity : RowsOf(e)' = RowsOf(e)
    BY <1>2 DEF LeavePool, PodsIn, RowsOf
  <2> QED BY <2>1, <2>2, BetweenVisits
<1>3. CASE EndMatch
  <2>1. TypeOK' /\ BusyHasJob' /\ pc' # "pop" /\ queue' = {}
    BY <1>3 DEF EndMatch, IInv, TypeOK, BusyHasJob, QueueOfPool
  <2>2. /\ \A p \in Pool : PodsIn(p)' = PodsIn(p)
        /\ \A e \in Entity : RowsOf(e)' = RowsOf(e)
    BY <1>3 DEF EndMatch, PodsIn, RowsOf
  <2> QED BY <2>1, <2>2, BetweenVisits
<1>4. ASSUME NEW p \in Pool, PoolError(p) PROVE IInv'
  <2>1. TypeOK' /\ BusyHasJob' /\ pc' # "pop" /\ queue' = {}
    BY <1>4, ConstantsAssumption DEF PoolError, Fails, IInv, TypeOK, BusyHasJob, QueueOfPool
  <2>2. /\ \A q \in Pool : PodsIn(q)' = PodsIn(q)
        /\ \A e \in Entity : RowsOf(e)' = RowsOf(e)
    BY <1>4 DEF PoolError, PodsIn, RowsOf
  <2> QED BY <2>1, <2>2, BetweenVisits
<1> QED BY <1>1, <1>2, <1>3, <1>4

LEMMA PickPoolPreserves ==
  ASSUME IInv, NEW p \in Pool, PickPool(p) PROVE IInv'
<1> USE DEF schedVars, poolVars, jobVars, workerVars
<1>1. /\ Available(p) \in Nat /\ Cardinality(PodsIn(p)) + Available(p) <= Slots[p]
      /\ \A e \in Entity : Cardinality(PodsOf(e, p)) \in Nat
  BY AvailableRoom, WorkerSetsFinite, PodsAndRows DEF IInv
<1>2. TypeOK' /\ BusyHasJob'
  BY <1>1 DEF PickPool, IInv, TypeOK, BusyHasJob
<1>3. QueueOfPool' /\ FairShare' /\ FifoWithinEntity'
  BY <1>2 DEF PickPool, QueueOfPool, FairShare, FifoWithinEntity, TypeOK
<1>4. /\ \A q : PodsIn(q)' = PodsIn(q)
      /\ \A e : RowsOf(e)' = RowsOf(e)
  BY DEF PickPool, PodsIn, RowsOf
<1>5. PoolCapacity' /\ EntityCap'
  BY <1>4 DEF IInv, PoolCapacity, EntityCap
<1>6. Room'
  BY <1>1, <1>4 DEF PickPool, Room
<1> QED BY <1>2, <1>3, <1>5, <1>6 DEF IInv

-----------------------------------------------------------------------------
(* Steps of a visit.                                                       *)

(* Taking a job from the queue, whatever becomes of it: the entity popped  *)
(* is one with the fewest pods, and the job the oldest of its entity.      *)
LEMMA PopIsFair ==
  ASSUME IInv, NEW j \in Job, Pop(j), TypeOK',
         \/ active' = active
         \/ active' = [active EXCEPT ![Ent(j)] = @ + 1]
  PROVE  FairShare' /\ FifoWithinEntity' /\ QueueOfPool'
<1> USE DEF jobVars
<1>1. /\ j \in queue /\ queue' = queue \ {j} /\ pc = "pop" /\ pc' = "pop"
      /\ UNCHANGED <<class, pend, rank, pool, had>>
  BY DEF Pop, Dequeue, Popped
<1>2. \A k \in queue : Ent(k) \in Entity /\ Ent(k)' = Ent(k) /\ rank[k] \in Nat
  BY <1>1, ClassFields DEF IInv, TypeOK, Ent
<1>3. \A e \in Entity : active[e] \in Nat /\ active'[e] \in Nat /\ had[e] \in Nat
  BY DEF IInv, TypeOK
<1>4. QueueOfPool'
  BY <1>1 DEF IInv, QueueOfPool
<1>5. FifoWithinEntity'
  <2> SUFFICES ASSUME NEW i \in queue', NEW k \in pend', class'[k].pool = pool',
                      Ent(k)' = Ent(i)', rank'[i] < rank'[k]
               PROVE  k \in queue'
    BY DEF FifoWithinEntity
  <2>1. i \in queue /\ k \in pend /\ Ent(k) = Ent(i) /\ rank[i] < rank[k]
        /\ class[k].pool = pool
    BY <1>1 DEF Ent
  <2>2. k \in queue
    BY <1>1, <2>1 DEF IInv, FifoWithinEntity
  <2>3. Ent(j) = Ent(i) => rank[j] <= rank[i]
    BY <1>1, <1>2, <1>3, <2>1 DEF Pop, Dequeue, Popped
  <2>4. rank[i] \in Nat /\ rank[j] \in Nat
    BY <1>1, <1>2, <2>1
  <2>5. k # j
    BY <2>1, <2>3, <2>4
  <2> QED BY <1>1, <2>2, <2>5
<1>6. FairShare'
  <2> SUFFICES ASSUME NEW e \in Entity, NEW k \in queue', active'[e] > had'[e]
               PROVE  active'[e] <= active'[Ent(k)'] + 1
    BY DEF FairShare
  <2>1. k \in queue /\ Ent(k)' = Ent(k) /\ Ent(k) \in Entity
    BY <1>1, <1>2
  <2>2. active[Ent(k)] <= active'[Ent(k)] /\ active[Ent(k)] \in Nat /\ active'[Ent(k)] \in Nat
    BY <1>3, <2>1 DEF IInv, TypeOK
  <2>3. CASE active'[e] = active[e]
    BY <1>1, <1>3, <2>1, <2>2, <2>3 DEF IInv, FairShare
  <2>4. CASE active'[e] # active[e]
    <3>1. e = Ent(j) /\ active'[e] = active[e] + 1
      BY <2>4 DEF IInv, TypeOK
    <3>2. active[e] <= active[Ent(k)]
      BY <1>2, <1>3, <2>1, <3>1 DEF Pop, Dequeue, Popped
    <3> QED BY <1>3, <2>1, <2>2, <3>1, <3>2
  <2> QED BY <2>3, <2>4
<1> QED BY <1>4, <1>5, <1>6

LEMMA SkipPreserves ==
  ASSUME IInv, NEW j \in Job, Skip(j) PROVE IInv'
<1> USE DEF jobVars, workerVars
<1>1. TypeOK' /\ BusyHasJob'
  BY DEF Skip, Pop, Dequeue, IInv, TypeOK, BusyHasJob
<1>2. FairShare' /\ FifoWithinEntity' /\ QueueOfPool'
  BY <1>1, PopIsFair DEF Skip
<1>3. /\ \A p : PodsIn(p)' = PodsIn(p)
      /\ \A e : RowsOf(e)' = RowsOf(e)
  BY DEF Skip, PodsIn, RowsOf
<1>4. PoolCapacity' /\ EntityCap' /\ Room'
  BY <1>3 DEF Skip, Pop, Dequeue, IInv, PoolCapacity, EntityCap, Room
<1> QED BY <1>1, <1>2, <1>4 DEF IInv

LEMMA RateLimitedPreserves ==
  ASSUME IInv, NEW j \in Job, RateLimited(j) PROVE IInv'
<1> USE DEF jobVars, workerVars
<1>1. TypeOK' /\ BusyHasJob'
  BY ConstantsAssumption DEF RateLimited, Pop, Dequeue, IInv, TypeOK, BusyHasJob
<1>2. FairShare' /\ FifoWithinEntity' /\ QueueOfPool'
  BY <1>1, PopIsFair DEF RateLimited
<1>3. /\ \A p : PodsIn(p)' = PodsIn(p)
      /\ \A e : RowsOf(e)' = RowsOf(e)
  BY DEF RateLimited, PodsIn, RowsOf
<1>4. PoolCapacity' /\ EntityCap' /\ Room'
  BY <1>3 DEF RateLimited, Pop, Dequeue, IInv, PoolCapacity, EntityCap, Room
<1> QED BY <1>1, <1>2, <1>4 DEF IInv

LEMMA ProvisionFailsPreserves ==
  ASSUME IInv, NEW j \in Job, ProvisionFails(j) PROVE IInv'
<1> USE DEF jobVars, workerVars
<1>0. Ent(j) \in Entity
  BY ClassFields DEF IInv, TypeOK, Ent
<1>1. TypeOK' /\ BusyHasJob'
  <2>1. failures' \in Nat
    BY ConstantsAssumption DEF ProvisionFails, Fails, IInv, TypeOK
  <2>2. slots' \in Nat /\ active' \in [Entity -> Nat] /\ queue' \subseteq pend'
    BY <1>0 DEF ProvisionFails, Consume, Pop, Dequeue, IInv, TypeOK
  <2> QED BY <2>1, <2>2 DEF ProvisionFails, Pop, Dequeue, IInv, TypeOK, BusyHasJob
<1>2. FairShare' /\ FifoWithinEntity' /\ QueueOfPool'
  BY <1>1, PopIsFair DEF ProvisionFails, Consume
<1>3. /\ \A p : PodsIn(p)' = PodsIn(p)
      /\ \A e : RowsOf(e)' = RowsOf(e)
  BY DEF ProvisionFails, PodsIn, RowsOf
<1>4. pool \in Pool /\ Cardinality(PodsIn(pool)) \in Nat /\ Slots[pool] \in Nat /\ slots \in Nat
  BY WorkerSetsFinite, PodsAndRows, ConstantsAssumption DEF IInv, TypeOK
<1>5. PoolCapacity' /\ EntityCap' /\ Room'
  BY <1>3, <1>4 DEF ProvisionFails, Consume, Pop, Dequeue, IInv, PoolCapacity, EntityCap, Room
<1> QED BY <1>1, <1>2, <1>5 DEF IInv

(* The one step that adds a pod and a row: to the pool visited, while a    *)
(* slot read for it is left, and to an entity below its cap.               *)
LEMMA ProvisionPreserves ==
  ASSUME IInv, NEW j \in Job, NEW w \in Worker, Provision(j, w) PROVE IInv'
<1> USE DEF jobVars, workerVars
<1>1. /\ j \in queue /\ pc = "pop" /\ pc' = "pop" /\ pool' = pool /\ class' = class
      /\ class[j].pool = pool /\ class[j] \in Class /\ Ent(j) \in Entity
      /\ slots > 0 /\ slots' = slots - 1 /\ phase[w] = "none"
  BY ClassFields DEF Provision, Consume, Pop, Dequeue, Popped, IInv, TypeOK, QueueOfPool, Ent
<1>2. TypeOK' /\ BusyHasJob'
  BY <1>1 DEF Provision, Consume, Pop, Dequeue, IInv, TypeOK, BusyHasJob, Phases
<1>3. FairShare' /\ FifoWithinEntity' /\ QueueOfPool'
  BY <1>2, PopIsFair DEF Provision, Consume
<1>4. /\ PodsIn(pool)' = PodsIn(pool) \union {w}
      /\ \A p \in Pool : p # pool => PodsIn(p)' = PodsIn(p)
      /\ RowsOf(Ent(j))' = RowsOf(Ent(j)) \union {w}
      /\ \A e \in Entity : e # Ent(j) => RowsOf(e)' = RowsOf(e)
  BY <1>1 DEF Provision, IInv, TypeOK, PodsIn, RowsOf, Occupying, RowActive, Ent
<1>5. /\ pool \in Pool /\ Slots[pool] \in Nat /\ slots \in Nat
      /\ Cardinality(PodsIn(pool)) \in Nat /\ Cardinality(PodsIn(pool)') \in Nat
      /\ Cardinality(PodsIn(pool)') <= Cardinality(PodsIn(pool)) + 1
  BY <1>4, WorkerSetsFinite, PodsAndRows, OneMoreWorker, ConstantsAssumption DEF IInv, TypeOK
<1>6. Cardinality(PodsIn(pool)) + slots <= Slots[pool]
  BY <1>1 DEF IInv, Room
<1>7. PoolCapacity' /\ Room'
  <2>1. Cardinality(PodsIn(pool)') + slots' <= Slots[pool] /\ slots' \in Nat
    BY <1>1, <1>5, <1>6
  <2>2. Room'
    BY <1>1, <2>1 DEF Room
  <2>3. Cardinality(PodsIn(pool)') <= Slots[pool]
    BY <1>5, <2>1
  <2>4. \A p \in Pool : Cardinality(PodsIn(p)') <= Slots[p]
    <3> SUFFICES ASSUME NEW p \in Pool PROVE Cardinality(PodsIn(p)') <= Slots[p]
      OBVIOUS
    <3>1. CASE p = pool
      <4>1. PodsIn(p)' = PodsIn(pool)'
        BY <1>1, <3>1 DEF PodsIn
      <4> QED BY <2>3, <3>1, <4>1
    <3>2. CASE p # pool
      <4>1. PodsIn(p)' = PodsIn(p)
        BY <1>4, <3>2
      <4> QED BY <4>1 DEF IInv, PoolCapacity
    <3> QED BY <3>1, <3>2
  <2> QED BY <2>2, <2>4 DEF PoolCapacity
<1>8. EntityCap'
  <2>1. /\ Cardinality(RowsOf(Ent(j))) \in Nat /\ Cardinality(RowsOf(Ent(j))') \in Nat
        /\ Cardinality(RowsOf(Ent(j))') <= Cardinality(RowsOf(Ent(j))) + 1
    BY <1>4, WorkerSetsFinite, PodsAndRows, OneMoreWorker
  <2>2. MaxWorkers[Ent(j)] # NoCap => /\ MaxWorkers[Ent(j)] \in Nat
                                     /\ Cardinality(RowsOf(Ent(j))) < MaxWorkers[Ent(j)]
    BY <1>1, <2>1, ConstantsAssumption DEF Provision, Wanted, AtCap
  <2>3. MaxWorkers[Ent(j)] # NoCap => Cardinality(RowsOf(Ent(j))') <= MaxWorkers[Ent(j)]
    BY <2>1, <2>2
  <2>4. \A e \in Entity : MaxWorkers[e] # NoCap => Cardinality(RowsOf(e)') <= MaxWorkers[e]
    <3> SUFFICES ASSUME NEW e \in Entity, MaxWorkers[e] # NoCap
                 PROVE  Cardinality(RowsOf(e)') <= MaxWorkers[e]
      OBVIOUS
    <3>1. CASE e = Ent(j)
      <4>1. RowsOf(e)' = RowsOf(Ent(j))'
        BY <1>1, <3>1 DEF RowsOf, Ent
      <4> QED BY <2>3, <3>1, <4>1
    <3>2. CASE e # Ent(j)
      <4>1. RowsOf(e)' = RowsOf(e)
        BY <1>4, <3>2
      <4> QED BY <4>1 DEF IInv, EntityCap
    <3> QED BY <3>1, <3>2
  <2> QED BY <2>4 DEF EntityCap
<1> QED BY <1>2, <1>3, <1>7, <1>8 DEF IInv

-----------------------------------------------------------------------------

LEMMA InitIInv == Init => IInv
<1> SUFFICES ASSUME Init PROVE IInv
  OBVIOUS
<1>1. (CHOOSE c \in Class : TRUE) \in Class /\ (CHOOSE p \in Pool : TRUE) \in Pool
  BY ConstantsAssumption
<1>2. TypeOK /\ BusyHasJob
  BY <1>1, ConstantsAssumption DEF Init, TypeOK, BusyHasJob, Phases
<1>3. QueueOfPool /\ FairShare /\ FifoWithinEntity /\ Room
  BY DEF Init, QueueOfPool, FairShare, FifoWithinEntity, Room
<1>4. /\ \A p \in Pool : PodsIn(p) = {}
      /\ \A e \in Entity : RowsOf(e) = {}
  BY DEF Init, PodsIn, RowsOf, Occupying, RowActive
<1>5. PoolCapacity /\ EntityCap
  <2>1. \A p \in Pool : Cardinality(PodsIn(p)) = 0 /\ Slots[p] \in Nat
    BY <1>4, FS_EmptySet, ConstantsAssumption
  <2>2. \A e \in Entity : Cardinality(RowsOf(e)) = 0
                         /\ (MaxWorkers[e] # NoCap => MaxWorkers[e] \in Nat)
    BY <1>4, FS_EmptySet, ConstantsAssumption
  <2> QED BY <2>1, <2>2 DEF PoolCapacity, EntityCap
<1> QED BY <1>2, <1>3, <1>5 DEF IInv

LEMMA NextIInv == IInv /\ [Next]_vars => IInv'
<1> SUFFICES ASSUME IInv, [Next]_vars PROVE IInv'
  OBVIOUS
<1>1. CASE UNCHANGED vars
  <2>1. TypeOK' /\ BusyHasJob' /\ UNCHANGED schedVars /\ class' = class
    BY <1>1 DEF vars, jobVars, workerVars, schedVars, poolVars, IInv, TypeOK, BusyHasJob
  <2>2. /\ \A p \in Pool : PodsIn(p)' = PodsIn(p)
        /\ \A e \in Entity : RowsOf(e)' = RowsOf(e)
    BY <1>1 DEF vars, workerVars, PodsIn, RowsOf
  <2> QED BY <2>1, <2>2, QuietStep
<1>2. CASE Env
  BY <1>2, JobsAndRunnersPreserve
<1>3. CASE SchedStep
  BY <1>3, OutsidePreserves, PickPoolPreserves, SkipPreserves, ProvisionPreserves,
     ProvisionFailsPreserves, RateLimitedPreserves DEF SchedStep
<1> QED BY <1>1, <1>2, <1>3 DEF Next

LEMMA Invariance == Spec => []IInv
BY InitIInv, NextIInv, PTL DEF Spec

(* Every variable keeps to its type.                                       *)
THEOREM DemandTypeCorrect == Spec => []TypeOK
BY Invariance, PTL DEF IInv

(* However many entities queue, and however attempts fail or are limited,  *)
(* none gets two pods ahead of one that still waits.                       *)
THEOREM DemandFairShare == Spec => []FairShare
BY Invariance, PTL DEF IInv

(* The jobs of an entity are tried in the order of their creation.         *)
THEOREM DemandFifoWithinEntity == Spec => []FifoWithinEntity
BY Invariance, PTL DEF IInv

(* One scheduler never overcommits a pool, though it reads the slots once. *)
THEOREM DemandPoolCapacity == Spec => []PoolCapacity
BY Invariance, PTL DEF IInv

(* An entity's cap holds over all pools.                                   *)
THEOREM DemandEntityCap == Spec => []EntityCap
BY Invariance, PTL DEF IInv

-----------------------------------------------------------------------------
(* Demand.  GetPoolDemand compares two counts, of jobs and of workers that *)
(* ask for the same.  The comparison says something about runners only     *)
(* because a busy worker accounts for a running job of its own, and that   *)
(* job is counted where the worker is.                                     *)

BusyRunsItsJob ==
  /\ \A w \in Worker : phase[w] = "busy" =>
       task[w] \in Job /\ status[task[w]] = "running" /\ CanRun(w, task[w])
  /\ \A v, w \in Worker :
       phase[v] = "busy" /\ phase[w] = "busy" /\ task[v] = task[w] => v = w

SameDemand(c, d) == c.entity = d.entity /\ c.labels = d.labels

(* What the runners made for d can run is counted with d, and only that:   *)
(* they are all registered where its jobs are, and jobs of no smaller      *)
(* label set come there.                                                   *)
Pure(d) == \A c \in Class : SameDemand(c, d) =>
  /\ c.target = d.target
  /\ \A e \in Class : e.target = c.target /\ e.labels \subseteq c.labels => SameDemand(c, e)

Unmixed == \A d \in Class : Pure(d)

HasRunner(j) == \E w \in Worker :
  \/ phase[w] \in Waiting /\ CanRun(w, j)
  \/ phase[w] = "ended" /\ SameDemand(wclass[w], class[j])

LEMMA DemandKept == TypeOK /\ BusyRunsItsJob /\ [Next]_vars => BusyRunsItsJob'
<1> SUFFICES ASSUME TypeOK, BusyRunsItsJob, [Next]_vars PROVE BusyRunsItsJob'
  OBVIOUS
<1> USE DEF jobVars, workerVars, schedVars, poolVars
<1>1. CASE UNCHANGED vars
  BY <1>1 DEF vars, BusyRunsItsJob, CanRun
<1>2. CASE Env
  <2>1. ASSUME NEW j \in Job, Cancelled(j) PROVE BusyRunsItsJob'
    <3>1. status' = [status EXCEPT ![j] = "none"] /\ status[j] = "pending"
          /\ UNCHANGED <<class, workerVars>>
      BY <2>1 DEF Cancelled, Leaves
    <3> QED BY <3>1 DEF BusyRunsItsJob, CanRun, TypeOK
  <2>2. ASSUME NEW j \in Job, NEW c \in Class, Arrives(j, c) PROVE BusyRunsItsJob'
    <3>1. status' = [status EXCEPT ![j] = "pending"] /\ status[j] = "none"
          /\ class' = [class EXCEPT ![j] = c] /\ UNCHANGED workerVars
      BY <2>2 DEF Arrives
    <3> QED BY <3>1 DEF BusyRunsItsJob, CanRun, TypeOK
  <2>3. ASSUME NEW w \in Worker, NEW j \in Job, Takes(w, j) PROVE BusyRunsItsJob'
    <3>1. /\ status' = [status EXCEPT ![j] = "running"] /\ status[j] = "pending"
          /\ phase' = [phase EXCEPT ![w] = "busy"] /\ task' = [task EXCEPT ![w] = j]
          /\ CanRun(w, j) /\ UNCHANGED <<class, wclass>>
      BY <2>3 DEF Takes
    <3> QED BY <3>1 DEF BusyRunsItsJob, CanRun, TypeOK
  <2>4. ASSUME NEW w \in Worker, Finishes(w) PROVE BusyRunsItsJob'
    <3>1. /\ status' = [status EXCEPT ![task[w]] = "none"] /\ phase[w] = "busy"
          /\ phase' = [phase EXCEPT ![w] = "ended"] /\ task' = [task EXCEPT ![w] = NoJob]
          /\ UNCHANGED <<class, wclass>>
      BY <2>4 DEF Finishes, Leaves
    <3> QED BY <3>1 DEF BusyRunsItsJob, CanRun, TypeOK
  <2>5. ASSUME NEW w \in Worker, Ages(w) PROVE BusyRunsItsJob'
    <3>1. /\ \A v \in Worker : phase'[v] = "busy" => phase[v] = "busy"
          /\ UNCHANGED <<status, class, wclass, task>>
      BY <2>5 DEF Ages, TypeOK
    <3> QED BY <3>1 DEF BusyRunsItsJob, CanRun
  <2> QED BY <1>2, <2>1, <2>2, <2>3, <2>4, <2>5 DEF Env
<1>3. CASE SchedStep
  <2>1. CASE BeginMatch
    <3>1. /\ \A v \in Worker : phase'[v] = "busy" => phase[v] = "busy"
          /\ UNCHANGED <<status, class, wclass, task>>
      BY <2>1 DEF BeginMatch
    <3> QED BY <3>1 DEF BusyRunsItsJob, CanRun
  <2>2. ASSUME NEW j \in Job, NEW w \in Worker, Provision(j, w) PROVE BusyRunsItsJob'
    <3>1. /\ phase[w] = "none" /\ phase' = [phase EXCEPT ![w] = "idle"]
          /\ \A v \in Worker : v # w => wclass'[v] = wclass[v]
          /\ UNCHANGED <<status, class, task>>
      BY <2>2 DEF Provision, Pop, Dequeue, TypeOK
    <3> QED BY <3>1 DEF BusyRunsItsJob, CanRun, TypeOK
  <2>3. CASE UNCHANGED <<jobVars, workerVars>>
    BY <2>3 DEF BusyRunsItsJob, CanRun
  <2>4. ASSUME NEW j \in Job, Skip(j) \/ ProvisionFails(j) \/ RateLimited(j)
        PROVE  UNCHANGED <<jobVars, workerVars>>
    BY <2>4 DEF Skip, ProvisionFails, RateLimited, Pop, Dequeue
  <2>5. ASSUME NEW p \in Pool, PickPool(p) \/ PoolError(p)
        PROVE  UNCHANGED <<jobVars, workerVars>>
    BY <2>5 DEF PickPool, PoolError
  <2>6. LeavePool \/ EndMatch => UNCHANGED <<jobVars, workerVars>>
    BY DEF LeavePool, EndMatch
  <2> QED BY <1>3, <2>1, <2>2, <2>3, <2>4, <2>5, <2>6 DEF SchedStep
<1> QED BY <1>1, <1>2, <1>3 DEF Next

(* Were all of a met demand's workers busy, each would run a job counted   *)
(* with it, all different and none the pending one: fewer workers than     *)
(* jobs.                                                                   *)
LEMMA MetDemand ==
  ASSUME TypeOK, BusyRunsItsJob, NEW j \in Pending, Pure(class[j]), DemandMet(j)
  PROVE  HasRunner(j)
<1> SUFFICES ASSUME \A w \in Worker :
                      /\ ~(phase[w] \in Waiting /\ CanRun(w, j))
                      /\ ~(phase[w] = "ended" /\ SameDemand(wclass[w], class[j]))
             PROVE  FALSE
  BY DEF HasRunner
<1> DEFINE Jobs == {k \in ActiveJobs : SameDemand(class[k], class[j])}
           Rows == {w \in Worker : phase[w] \in RowActive /\ SameDemand(wclass[w], class[j])}
           f == [w \in Rows |-> task[w]]
<1>1. j \in Job /\ status[j] = "pending" /\ j \in Jobs
  BY DEF Pending, ActiveJobs, SameDemand
<1>2. IsFiniteSet(Jobs) /\ IsFiniteSet(Rows) /\ Cardinality(Jobs) \in Nat /\ Cardinality(Rows) \in Nat
  <2>1. Jobs \in SUBSET Job /\ Rows \in SUBSET Worker
    BY DEF ActiveJobs
  <2> HIDE DEF Jobs, Rows
  <2> QED BY <2>1, ConstantsAssumption, FS_Subset, FS_CardinalityType
<1>3. Cardinality(Jobs) <= Cardinality(Rows)
  BY DEF DemandMet, JobCount, WorkerCount, SameDemand
<1>4. ASSUME NEW w \in Rows PROVE phase[w] = "busy" /\ w \in Worker
  <2>1. wclass[w] \in Class /\ class[j] \in Class /\ SameDemand(wclass[w], class[j])
        /\ w \in Worker /\ phase[w] \in RowActive
    BY <1>1 DEF TypeOK
  <2>2. CanRun(w, j)
    BY <2>1 DEF Pure, SameDemand, CanRun
  <2> QED BY <2>1, <2>2 DEF RowActive, Waiting
<1>5. ASSUME NEW w \in Rows PROVE task[w] \in Jobs \ {j}
  <2>1. /\ w \in Worker /\ task[w] \in Job /\ status[task[w]] = "running" /\ CanRun(w, task[w])
        /\ SameDemand(wclass[w], class[j]) /\ wclass[w] \in Class /\ class[task[w]] \in Class
    BY <1>4 DEF BusyRunsItsJob, TypeOK
  <2>2. SameDemand(wclass[w], class[task[w]])
    BY <2>1 DEF Pure, CanRun
  <2> QED BY <1>1, <2>1, <2>2 DEF SameDemand, ActiveJobs
<1>6. \A v, w \in Rows : task[v] = task[w] => v = w
  BY <1>4 DEF BusyRunsItsJob
<1>7. IsFiniteSet(Jobs \ {j}) /\ Cardinality(Jobs \ {j}) = Cardinality(Jobs) - 1
  <2> HIDE DEF Jobs
  <2> QED BY <1>1, <1>2, FS_RemoveElement
<1>8. f \in Injection(Rows, Jobs \ {j})
  <2> HIDE DEF Rows, Jobs
  <2>1. f \in [Rows -> Jobs \ {j}]
    BY <1>5
  <2> QED BY <1>6, <2>1 DEF Injection, IsInjective
<1>9. Cardinality(Rows) <= Cardinality(Jobs \ {j})
  <2> HIDE DEF Rows, Jobs, f
  <2> QED BY <1>7, <1>8, FS_Injection
<1> HIDE DEF Rows, Jobs
<1> QED BY <1>2, <1>3, <1>7, <1>9

LEMMA DemandInductive == Spec => [](IInv /\ BusyRunsItsJob)
<1>1. Init => BusyRunsItsJob
  BY DEF Init, BusyRunsItsJob
<1>2. IInv => TypeOK
  BY DEF IInv
<1> QED BY <1>1, <1>2, DemandKept, InitIInv, NextIInv, PTL DEF Spec

(* "Demand is met" is never a reason to leave a job without a runner that  *)
(* can take it, wherever what its runners can run is counted with them:    *)
(* whatever else the entity, or another, asks for.                         *)
THEOREM PureDemandMeansRunner ==
  Spec => [](\A j \in Pending : Pure(class[j]) /\ DemandMet(j) => HasRunner(j))
<1>1. IInv /\ BusyRunsItsJob =>
        \A j \in Pending : Pure(class[j]) /\ DemandMet(j) => HasRunner(j)
  BY MetDemand DEF IInv
<1> QED BY <1>1, DemandInductive, PTL

(* Where this is so of all classes it holds of all jobs.                   *)
LEMMA AllDemand == ASSUME Unmixed, TypeOK, BusyRunsItsJob PROVE MetDemandHasRunner
<1> SUFFICES ASSUME NEW j \in Pending, DemandMet(j) PROVE HasRunner(j)
  BY DEF MetDemandHasRunner, HasRunner, SameDemand, Ent
<1>1. Pure(class[j])
  BY DEF Unmixed, TypeOK, Pending
<1> QED BY <1>1, MetDemand

THEOREM DemandMetMeansRunner ==
  ASSUME Unmixed PROVE Spec => []MetDemandHasRunner
<1>1. IInv /\ BusyRunsItsJob => MetDemandHasRunner
  BY AllDemand DEF IInv
<1> QED BY <1>1, DemandInductive, PTL

=============================================================================
