------------------------- MODULE SchedulerLoopProofs --------------------------
(***************************************************************************)
(* Proofs that the scheduler's loop loses no wake-up, that it implements   *)
(* DemandMatch and that what DemandMatch keeps the loop keeps, for any     *)
(* number of jobs, pools and workers.                                      *)
(*                                                                         *)
(* The claim about the wait has to hold during the iteration before it:    *)
(* only WaitForJob drains the connection, and it does so before the next   *)
(* iteration begins.  The rest is a matter of steps: each is one of        *)
(* DemandMatch, or changes nothing of it but the count of failures.        *)
(***************************************************************************)
EXTENDS SchedulerLoop, DemandMatchProofs

LoopInv ==
  /\ at \in {"run", "wait", "drain"}
  /\ at # "run" => pc = "idle"
  /\ (at = "wait" \/ pc # "idle") /\ conn /\ fresh => mail

LEMMA LoopInductive == LoopSpec => []LoopInv
<1>1. LoopInit => LoopInv
  BY DEF LoopInit, Init, LoopInv
<1>2. LoopInv /\ [LoopNext]_allVars => LoopInv'
  <2> SUFFICES ASSUME LoopInv, [LoopNext]_allVars PROVE LoopInv'
    OBVIOUS
  <2>1. CASE \E j \in Job, c \in Class : JobArrives(j, c)
    BY <2>1 DEF JobArrives, Arrives, schedVars, LoopInv
  <2>2. CASE Elsewhere
    <3>1. pc' = pc
      BY <2>2 DEF Elsewhere, Cancelled, Finishes, Ages, Takes, schedVars
    <3> QED
      BY <2>2, <3>1 DEF Elsewhere, loopVars, LoopInv
  <2>3. CASE ConnLost
    BY <2>3 DEF ConnLost, schedVars, LoopInv
  <2>4. CASE Hears \/ PollTimeout
    BY <2>4 DEF Hears, PollTimeout, Deadline, vars, schedVars, LoopInv
  <2>5. CASE Drain \/ ListenError
    BY <2>5 DEF Drain, ListenError, vars, schedVars, LoopInv
  <2>6. CASE Begin
    <3>1. at = "run" /\ fresh' = FALSE /\ conn' = conn
      BY <2>6 DEF Begin
    <3>2. at' = "run" \/ (at' = "wait" /\ pc' = "idle")
      BY <2>6 DEF Begin, EntersWaitForJob
    <3> QED
      BY <3>1, <3>2 DEF LoopInv
  <2>7. CASE Match
    <3>1. at = "run" /\ UNCHANGED <<at, mail, conn, fresh>>
      BY <2>7 DEF Match, loopVars
    <3>2. pc # "idle"
      BY <2>7 DEF Match, LeavePool, PickPool, PoolError, Skip, ProvisionFails, RateLimited,
           Provision, Pop
    <3> QED
      BY <3>1, <3>2 DEF LoopInv
  <2>8. CASE End
    BY <2>8 DEF End, EndMatch, EntersWaitForJob, LoopInv
  <2>9. CASE IterationFails
    BY <2>9 DEF IterationFails, EntersWaitForJob, schedVars, LoopInv
  <2>10. CASE UNCHANGED allVars
    BY <2>10 DEF allVars, vars, schedVars, loopVars, LoopInv
  <2> QED
    BY <2>1, <2>2, <2>3, <2>4, <2>5, <2>6, <2>7, <2>8, <2>9, <2>10 DEF LoopNext, LoopStep
<1> QED
  BY <1>1, <1>2, PTL DEF LoopSpec

(* Between WaitForJob's calls no notification is forgotten: one that came  *)
(* while the scheduler was busy ends the next wait at once.                *)
THEOREM WakeUpsKept == LoopSpec => []NoLostWakeUp
<1>1. LoopInv => NoLostWakeUp
  BY DEF LoopInv, NoLostWakeUp
<1> QED
  BY <1>1, LoopInductive, PTL

-----------------------------------------------------------------------------
(* The loop only decides when demandMatch runs.  What else it does -- wait,*)
(* drain, lose its connection, fail before it has begun -- changes nothing *)
(* of DemandMatch but the count of failures.                               *)
demandVars == <<jobVars, workerVars, schedVars>>

LEMMA LoopStepMapped ==
  ASSUME [LoopNext]_allVars
  PROVE  Next \/ (UNCHANGED demandVars /\ (Fails \/ UNCHANGED failures))
<1>1. CASE \E j \in Job, c \in Class : JobArrives(j, c)
  BY <1>1 DEF JobArrives, Next, Env
<1>2. CASE Elsewhere
  BY <1>2 DEF Elsewhere, Next, Env
<1>3. CASE ConnLost \/ IterationFails
  BY <1>3 DEF ConnLost, IterationFails, demandVars
<1>4. CASE Hears \/ PollTimeout \/ Drain \/ ListenError
  BY <1>4 DEF Hears, PollTimeout, Drain, ListenError, vars, demandVars
<1>5. CASE Begin \/ Match \/ End
  BY <1>5 DEF Begin, Match, End, Next, SchedStep
<1>6. CASE UNCHANGED allVars
  BY <1>6 DEF allVars, vars, demandVars
<1> QED
  BY <1>1, <1>2, <1>3, <1>4, <1>5, <1>6 DEF LoopNext, LoopStep

(* runSchedulerIteration, WaitForJob and their failures implement          *)
(* demandMatch: whatever wakes the loop, the tables, the pods and the      *)
(* state of an iteration change by DemandMatch's steps only.               *)
THEOREM LoopImplementsDemandMatch == LoopSpec => Init /\ [][Next]_demandVars
<1>1. LoopInit => Init
  BY DEF LoopInit
<1>2. [LoopNext]_allVars => [Next]_demandVars
  BY LoopStepMapped
<1> QED
  BY <1>1, <1>2, PTL DEF LoopSpec

LEMMA FailureKeepsDemand ==
  ASSUME IInv, BusyRunsItsJob, UNCHANGED demandVars, Fails \/ UNCHANGED failures
  PROVE  IInv' /\ BusyRunsItsJob'
<1> USE DEF demandVars, jobVars, workerVars, schedVars, poolVars
<1>1. failures' \in Nat
  BY ConstantsAssumption DEF Fails, IInv, TypeOK
<1>2. TypeOK' /\ BusyHasJob' /\ BusyRunsItsJob'
  BY <1>1 DEF IInv, TypeOK, BusyHasJob, BusyRunsItsJob, CanRun
<1>3. \A p \in Pool : PodsIn(p)' = PodsIn(p)
  BY DEF PodsIn
<1>4. \A e \in Entity : RowsOf(e)' = RowsOf(e)
  BY DEF RowsOf
<1> QED
  BY <1>2, <1>3, <1>4, QuietStep DEF IInv

LEMMA LoopDemandInductive == LoopSpec => [](IInv /\ BusyRunsItsJob)
<1>1. LoopInit => IInv /\ BusyRunsItsJob
  BY InitIInv DEF LoopInit, Init, BusyRunsItsJob
<1>2. IInv /\ BusyRunsItsJob /\ [LoopNext]_allVars => (IInv /\ BusyRunsItsJob)'
  <2> SUFFICES ASSUME IInv, BusyRunsItsJob, [LoopNext]_allVars
               PROVE  IInv' /\ BusyRunsItsJob'
    OBVIOUS
  <2>1. CASE Next
    BY <2>1, NextIInv, DemandKept DEF IInv
  <2>2. CASE UNCHANGED demandVars /\ (Fails \/ UNCHANGED failures)
    BY <2>2, FailureKeepsDemand
  <2> QED
    BY <2>1, <2>2, LoopStepMapped
<1> QED
  BY <1>1, <1>2, PTL DEF LoopSpec

(* Slots, caps, shares and order hold for as long as the scheduler runs,   *)
(* through iterations that fail, lost connections and missed wake-ups.     *)
THEOREM LoopKeepsDemand ==
  LoopSpec => [](PoolCapacity /\ EntityCap /\ FairShare /\ FifoWithinEntity)
<1>1. IInv => PoolCapacity /\ EntityCap /\ FairShare /\ FifoWithinEntity
  BY DEF IInv
<1> QED
  BY <1>1, LoopDemandInductive, PTL

(* At any time, also while the loop waits or has lost its connection, a    *)
(* pending job whose demand counts as met has a runner to take it, if what *)
(* its runners can run is counted with it.                                 *)
THEOREM LoopKeepsRunners ==
  LoopSpec => [](\A j \in Pending : Pure(class[j]) /\ DemandMet(j) => HasRunner(j))
<1>1. IInv /\ BusyRunsItsJob =>
        \A j \in Pending : Pure(class[j]) /\ DemandMet(j) => HasRunner(j)
  BY MetDemand DEF IInv
<1> QED
  BY <1>1, LoopDemandInductive, PTL

===============================================================================
