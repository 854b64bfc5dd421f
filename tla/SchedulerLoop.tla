---------------------------- MODULE SchedulerLoop ----------------------------
(***************************************************************************)
(* The scheduler's main loop around demandMatch: runSchedulerIteration,    *)
(* then WaitForJob, which listens on a connection of its own for the       *)
(* NOTIFY that AddJob sends after its INSERT, for at most PollInterval.    *)
(*                                                                         *)
(* A NOTIFY may never come (AddJob ignores its error, ghfe may die before  *)
(* it).  The listening connection, once lost, is never opened again: from  *)
(* then on WaitForJob fails at once, or, while nobody has noticed, waits   *)
(* in vain.                                                                *)
(***************************************************************************)
EXTENDS DemandMatch

VARIABLES
  at,       \* "run": an iteration; "wait", "drain": WaitForJob
  mail,     \* notifications are buffered for the listening connection
  conn,     \* that connection is alive
  fresh     \* history: one arrived and no iteration has begun since

loopVars == <<at, mail, conn, fresh>>
allVars  == <<vars, loopVars>>

LoopInit == Init /\ at = "run" /\ mail = FALSE /\ conn = TRUE /\ fresh = FALSE

(* AddJob: the row, then NOTIFY, which may fail.                           *)
JobArrives(j, c) ==
  /\ Arrives(j, c)
  /\ \/ conn /\ mail' = TRUE /\ fresh' = TRUE
     \/ UNCHANGED <<mail, fresh>>
  /\ UNCHANGED <<at, conn>>

Elsewhere ==
  /\ \/ \E j \in Job : Cancelled(j)
     \/ \E w \in Worker : Finishes(w) \/ Ages(w) \/ \E j \in Job : Takes(w, j)
  /\ UNCHANGED loopVars

(* What is buffered is lost with the connection.                           *)
ConnLost ==
  /\ conn /\ Fails
  /\ conn' = FALSE /\ mail' = FALSE
  /\ UNCHANGED <<jobVars, workerVars, schedVars, at, fresh>>

-----------------------------------------------------------------------------
(* WaitForJob.  Mutant: it drains before it waits.                         *)

EntersAndDrains == at' = "wait" /\ mail' = FALSE
EntersWaitForJob == at' = "wait" /\ UNCHANGED mail

Hears ==
  /\ at = "wait" /\ conn /\ mail
  /\ at' = "drain"
  /\ UNCHANGED <<vars, mail, conn, fresh>>

(* The deadline, PollInterval from the call.  Mutant: there is none.       *)
DeadlineNever == FALSE
Deadline == at = "wait"

PollTimeout ==
  /\ Deadline
  /\ at' = "drain"
  /\ UNCHANGED <<vars, mail, conn, fresh>>

(* Ten milliseconds for whatever else is buffered; an error ends it too.   *)
Drain ==
  /\ at = "drain"
  /\ at' = "run" /\ mail' = FALSE
  /\ UNCHANGED <<vars, conn, fresh>>

ListenError ==
  /\ at = "wait" /\ ~conn
  /\ at' = "run"
  /\ UNCHANGED <<vars, mail, conn, fresh>>

-----------------------------------------------------------------------------
(* runSchedulerIteration.                                                  *)

(* With no pending job the iteration is over.                              *)
Begin ==
  /\ at = "run" /\ BeginMatch
  /\ fresh' = FALSE
  /\ IF pc' = "idle" THEN EntersWaitForJob ELSE UNCHANGED <<at, mail>>
  /\ UNCHANGED conn

Match ==
  /\ at = "run"
  /\ \/ LeavePool
     \/ \E p \in Pool : PickPool(p) \/ PoolError(p)
     \/ \E j \in Job : \/ Skip(j) \/ ProvisionFails(j) \/ RateLimited(j)
                       \/ \E w \in Worker : Provision(j, w)
  /\ UNCHANGED loopVars

End ==
  /\ at = "run" /\ EndMatch
  /\ EntersWaitForJob
  /\ UNCHANGED <<conn, fresh>>

(* BEGIN or LOCK TABLE fails, or a panic is recovered: the loop goes on.   *)
IterationFails ==
  /\ at = "run" /\ pc = "idle"
  /\ Fails
  /\ EntersWaitForJob /\ fresh' = FALSE
  /\ UNCHANGED <<jobVars, workerVars, schedVars, conn>>

LoopStep == \/ Begin \/ Match \/ End \/ IterationFails
            \/ PollTimeout \/ Drain \/ ListenError

LoopNext ==
  \/ \E j \in Job, c \in Class : JobArrives(j, c)
  \/ Elsewhere \/ ConnLost \/ Hears \/ LoopStep

LoopSpec == LoopInit /\ [][LoopNext]_allVars

(* The loop goes on and its deadline comes, jobs finish, waiting runners   *)
(* time out and killed pods end; GitHub does not pass a job over for ever  *)
(* when it hands jobs to runners.  NOTIFY is not fair.                     *)
FairLoop ==
  /\ LoopSpec
  /\ WF_allVars(LoopStep)
  /\ \A w \in Worker : WF_allVars(Elsewhere /\ Finishes(w))
                       /\ WF_allVars(Elsewhere /\ Ages(w))
  /\ \A j \in Job : SF_allVars(Elsewhere /\ \E w \in Worker : Takes(w, j))

-----------------------------------------------------------------------------
(* Properties.                                                             *)

(* No wake-up is lost: the loop never waits with nothing buffered when a   *)
(* notification has arrived since the last iteration began -- one that     *)
(* came during an iteration or a drain included.                           *)
NoLostWakeUp == at = "wait" /\ conn /\ fresh => mail

(* The runs also check JobServed, of DemandMatch: every job is served      *)
(* whether or not its NOTIFY came, and after the connection is lost.       *)

=============================================================================
