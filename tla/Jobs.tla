-------------------------------- MODULE Jobs --------------------------------
(***************************************************************************)
(* How a job's row follows GitHub.  Two processes write the jobs table:    *)
(*                                                                         *)
(*  - ghfe, one short statement per workflow_job webhook (queued,          *)
(*    in_progress, completed), in whatever order the webhooks arrive and   *)
(*    however often GitHub sends them;                                     *)
(*                                                                         *)
(*  - the scheduler's syncJobsState, which reads the active rows once,     *)
(*    asks GitHub about each, and writes the answers in ONE transaction    *)
(*    that commits at the end of the whole iteration.  Until then its      *)
(*    writes are invisible and the rows it wrote are locked; a crash or    *)
(*    an SQL error discards them all.                                      *)
(*                                                                         *)
(* A webhook is never consumed: it can be delivered now, later, again, or  *)
(* (deliveries have no fairness) never.                                    *)
(***************************************************************************)
EXTENDS JobTable, Naturals

CONSTANT MaxFaults   \* bound: GitHub errors and aborted iterations together

ASSUME MaxFaultsAssumption == MaxFaults \in Nat

VARIABLES
  ghState,    \* GitHub: state of each job
  ghRunner,   \* GitHub: the runner that took the job, or Blank
  runDone,    \* GitHub: jobs whose workflow run is completed
  gone,       \* GitHub: jobs for which the API answers 404
  sent,       \* webhooks GitHub has emitted so far
  jobs,       \* the committed jobs table
  old,        \* rows older than JobStuckQueuedMinAge (10 minutes)
  pc,         \* scheduler: "idle", "pick" (next job), "apply" (an answer)
  todo,       \* scheduler: active jobs it has still to look at
  snap,       \* scheduler: statuses as GetActiveJobs returned them
  cur,        \* scheduler: the answer of GetJobInfo being applied
  dirty,      \* transaction: rows it has written, and so locked
  view,       \* transaction: its own version of the dirty rows
  faults

ghVars    == <<ghState, ghRunner, runDone, gone, sent>>
schedVars == <<pc, todo, snap, cur, dirty, view, faults>>
vars      == <<ghVars, jobs, old, schedVars>>

GHStates == {"unborn", "queued", "in_progress", "completed"}

Hook(action, j, runner) == [action |-> action, job |-> j, runner |-> runner]
Hooks  == [action : {"queued", "in_progress", "completed"},
           job : Job, runner : RunnerName]

Answer == [job : Job, status : {"queued", "in_progress", "completed"},
           runner : RunnerName]
NoAnswer == Null

NoSnap == [j \in Job |-> "absent"]

TypeOK ==
  /\ ghState \in [Job -> GHStates]
  /\ ghRunner \in [Job -> RunnerName]
  /\ runDone \subseteq Job
  /\ gone \subseteq Job
  /\ sent \subseteq Hooks
  /\ jobs \in [Job -> Row]
  /\ old \subseteq Job
  /\ pc \in {"idle", "pick", "apply"}
  /\ todo \subseteq Job
  /\ snap \in [Job -> {"absent"} \union ActiveStatus \union TerminalStatus]
  /\ cur \in Answer \union {NoAnswer}
  /\ (pc = "apply") => cur \in Answer
  /\ dirty \subseteq Job
  /\ view \in [Job -> Row]
  /\ faults \in 0..MaxFaults

Init ==
  /\ ghState = [j \in Job |-> "unborn"]
  /\ ghRunner = [j \in Job |-> Blank]
  /\ runDone = {} /\ gone = {} /\ sent = {} /\ old = {}
  /\ jobs = EmptyTable
  /\ pc = "idle" /\ todo = {} /\ snap = NoSnap /\ cur = NoAnswer
  /\ dirty = {} /\ view = EmptyTable
  /\ faults = 0

-----------------------------------------------------------------------------
(* GitHub.  A job is queued, taken by one runner (each runner is ephemeral *)
(* and takes one job), and finished; or cancelled before it starts.        *)

GHQueue(j) ==
  /\ ghState[j] = "unborn"
  /\ ghState' = [ghState EXCEPT ![j] = "queued"]
  /\ sent' = sent \union {Hook("queued", j, Blank)}
  /\ UNCHANGED <<ghRunner, runDone, gone, jobs, old, schedVars>>

GHStart(j, p) ==
  /\ ghState[j] = "queued" /\ j \notin gone \union runDone
  /\ \A k \in Job : ghRunner[k] # p
  /\ ghState' = [ghState EXCEPT ![j] = "in_progress"]
  /\ ghRunner' = [ghRunner EXCEPT ![j] = p]
  /\ sent' = sent \union {Hook("in_progress", j, p)}
  /\ UNCHANGED <<runDone, gone, jobs, old, schedVars>>

(* From in_progress the runner finishes; from queued the job is cancelled. *)
GHFinish(j) ==
  /\ ghState[j] \in {"queued", "in_progress"} /\ j \notin gone \union runDone
  /\ ghState' = [ghState EXCEPT ![j] = "completed"]
  /\ sent' = sent \union {Hook("completed", j, ghRunner[j])}
  /\ UNCHANGED <<ghRunner, runDone, gone, jobs, old, schedVars>>

(* The workflow run completes: after its job, or (a run cancelled before   *)
(* scheduling reaches the job) with the job left queued for ever.          *)
GHRunEnds(j) ==
  /\ ghState[j] \in {"queued", "completed"} /\ j \notin gone \union runDone
  /\ runDone' = runDone \union {j}
  /\ UNCHANGED <<ghState, ghRunner, gone, sent, jobs, old, schedVars>>

(* The job, or the installation it belongs to, is removed from GitHub.     *)
GHRemove(j) ==
  /\ ghState[j] # "unborn" /\ j \notin gone
  /\ gone' = gone \union {j}
  /\ UNCHANGED <<ghState, ghRunner, runDone, sent, jobs, old, schedVars>>

-----------------------------------------------------------------------------
(* ghfe: handleWorkflowJobEvent, one action per webhook action.  A         *)
(* statement on a row the scheduler's transaction has written waits for    *)
(* its commit.                                                             *)

Queued(m) ==
  /\ m.action = "queued"
  /\ jobs' = [jobs EXCEPT ![m.job] = AddJobRow(@)]
  /\ UNCHANGED <<ghVars, old, schedVars>>

InProgress(m) ==
  /\ m.action = "in_progress" /\ m.job \notin dirty
  /\ jobs' = [jobs EXCEPT ![m.job] = MarkRunningRow(@, m.runner)]
  /\ UNCHANGED <<ghVars, old, schedVars>>

Completed(m) ==
  /\ m.action = "completed" /\ m.job \notin dirty
  /\ jobs' = [jobs EXCEPT ![m.job] = MarkCompletedRow(@, m.runner)]
  /\ UNCHANGED <<ghVars, old, schedVars>>

Webhook(m) == Queued(m) \/ InProgress(m) \/ Completed(m)

(* An active row crosses JobStuckQueuedMinAge.                             *)
JobAges(j) ==
  /\ jobs[j].status \in ActiveStatus /\ j \notin old
  /\ old' = old \union {j}
  /\ UNCHANGED <<ghVars, jobs, schedVars>>

-----------------------------------------------------------------------------
(* The scheduler's iteration.                                              *)

(* READ COMMITTED: its own writes, else what is committed right now.       *)
TxRow(j) == IF j \in dirty THEN view[j] ELSE jobs[j]

(* Mutant: the UPDATE's WHERE clause forgets job_id.                       *)
TxWriteAllRows(j, r) ==
  IF r = TxRow(j)
    THEN UNCHANGED <<dirty, view>>
    ELSE dirty' = Job /\ view' = [k \in Job |-> r]

(* An UPDATE that matches writes and locks the row; else it does nothing.  *)
TxWrite(j, r) ==
  IF r = TxRow(j)
    THEN UNCHANGED <<dirty, view>>
    ELSE /\ dirty' = dirty \union {j}
         /\ view' = [view EXCEPT ![j] = r]

(* Begin the transaction; GetActiveJobs.                                   *)
BeginSync ==
  /\ pc = "idle"
  /\ pc' = "pick"
  /\ snap' = [j \in Job |-> jobs[j].status]
  /\ todo' = {j \in Job : jobs[j].status \in ActiveStatus}
  /\ UNCHANGED <<ghVars, jobs, old, cur, dirty, view, faults>>

(* 404 from the authentication or from GetJobInfo: the job is failed.      *)
ReadGone(j) ==
  /\ pc = "pick" /\ j \in todo /\ j \in gone
  /\ TxWrite(j, MarkFailedRow(TxRow(j), "not_found"))
  /\ todo' = todo \ {j}
  /\ UNCHANGED <<ghVars, jobs, old, pc, snap, cur, faults>>

(* Mutant: the test on the conclusion is the wrong way round.              *)
EffectiveInverted(status, concluded) == IF concluded THEN status ELSE "completed"

(* A non-empty conclusion counts as completed whatever the status says.    *)
Effective(status, concluded) == IF concluded THEN "completed" ELSE status

(* What the API may answer about a job: one that has concluded can still   *)
(* be reported in_progress, with its conclusion.                           *)
Reported(j) ==
  IF ghState[j] = "completed" THEN {"in_progress", "completed"} ELSE {ghState[j]}

ReadJob(j) ==
  /\ pc = "pick" /\ j \in todo /\ j \notin gone
  /\ \E status \in Reported(j) :
       cur' = [job |-> j,
               status |-> Effective(status, ghState[j] = "completed"),
               runner |-> ghRunner[j]]
  /\ pc' = "apply"
  /\ UNCHANGED <<ghVars, jobs, old, todo, snap, dirty, view, faults>>

Applied == /\ pc' = "pick" /\ cur' = NoAnswer
           /\ todo' = todo \ {cur.job}
           /\ UNCHANGED <<ghVars, jobs, old, snap>>

ApplyCompleted ==
  /\ pc = "apply" /\ cur.status = "completed"
  /\ TxWrite(cur.job, MarkCompletedRow(TxRow(cur.job), cur.runner))
  /\ Applied
  /\ UNCHANGED faults

(* Mutant: only rows that are running already are marked running.          *)
WasPendingInverted(j) == snap[j] = "running"

(* Written only when the snapshot row was pending.                         *)
WasPending(j) == snap[j] = "pending"

ApplyInProgress ==
  /\ pc = "apply" /\ cur.status = "in_progress"
  /\ IF WasPending(cur.job)
       THEN TxWrite(cur.job, MarkRunningRow(TxRow(cur.job), cur.runner))
       ELSE UNCHANGED <<dirty, view>>
  /\ Applied
  /\ UNCHANGED faults

(* Mutant: the run's status is not looked at.                              *)
StuckQueuedByAge(j) == j \in old /\ j \notin gone

(* Mutant: the test on the age is the wrong way round.                     *)
StuckQueuedYoung(j) == j \notin old /\ j \notin gone /\ j \in runDone

(* reconcileStuckQueued: for a row that is old enough ask GitHub about the *)
(* workflow run, now, and fail the job if the run is over.                 *)
StuckQueued(j) == j \in old /\ j \notin gone /\ j \in runDone

ApplyQueued ==
  /\ pc = "apply" /\ cur.status = "queued"
  /\ IF StuckQueued(cur.job)
       THEN TxWrite(cur.job, MarkFailedRow(TxRow(cur.job), "stuck_queued"))
       ELSE UNCHANGED <<dirty, view>>
  /\ Applied
  /\ UNCHANGED faults

Fault == faults < MaxFaults /\ faults' = faults + 1

(* Any other error of the three GitHub calls: the job is left for the next *)
(* iteration.                                                              *)
ReadError(j) ==
  /\ pc = "pick" /\ j \in todo
  /\ Fault
  /\ todo' = todo \ {j}
  /\ UNCHANGED <<ghVars, jobs, old, pc, snap, cur, dirty, view>>

RunError ==
  /\ pc = "apply" /\ cur.status = "queued" /\ cur.job \in old
  /\ Fault
  /\ Applied
  /\ UNCHANGED <<dirty, view>>

EndTx == /\ pc' = "idle" /\ todo' = {} /\ snap' = NoSnap /\ cur' = NoAnswer
         /\ dirty' = {} /\ view' = EmptyTable

Commit ==
  /\ pc = "pick" /\ todo = {}
  /\ jobs' = [j \in Job |-> TxRow(j)]
  /\ EndTx
  /\ UNCHANGED <<ghVars, old, faults>>

(* Crash, lost connection, SQL error or failed commit: everything the      *)
(* iteration wrote is rolled back.                                         *)
Abort ==
  /\ pc # "idle"
  /\ Fault
  /\ EndTx
  /\ UNCHANGED <<ghVars, jobs, old>>

-----------------------------------------------------------------------------
GitHub == \E j \in Job :
  \/ GHQueue(j) \/ GHFinish(j) \/ GHRunEnds(j) \/ GHRemove(j)
  \/ \E p \in Pod : GHStart(j, p)

SchedStep ==
  \/ BeginSync \/ ApplyCompleted \/ ApplyInProgress \/ ApplyQueued \/ Commit
  \/ \E j \in Job : ReadGone(j) \/ ReadJob(j)

SchedFault == Abort \/ RunError \/ \E j \in Job : ReadError(j)

Next ==
  \/ GitHub
  \/ \E m \in sent : Webhook(m)
  \/ \E j \in Job : JobAges(j)
  \/ SchedStep
  \/ SchedFault

Spec == Init /\ [][Next]_vars

(* The scheduler's loop runs for ever (a NOTIFY or, failing that, the poll *)
(* interval starts the next iteration), and time passes.  Nothing is       *)
(* assumed of GitHub or of the delivery of webhooks.                       *)
FairSpec == /\ Spec
            /\ WF_vars(SchedStep)
            /\ \A j \in Job : WF_vars(JobAges(j))

-----------------------------------------------------------------------------
(* Properties.                                                             *)

StartedStates == {"in_progress", "completed"}

(* A row is never ahead of GitHub: it exists only if GitHub has queued the *)
(* job, is running only if the job has been started there, completed only  *)
(* if it has been completed there, and it names no runner but the one that *)
(* took the job -- whatever the order, the age or the number of the        *)
(* webhooks and answers it was written from.                               *)
BehindRow(j, r) ==
  /\ r.status # "absent" => ghState[j] # "unborn"
  /\ r.status = "running" => ghState[j] \in StartedStates
  /\ r.status = "completed" => ghState[j] = "completed"
  /\ r.pod # Null => r.pod = ghRunner[j] /\ ghState[j] \in StartedStates

RowBehindGitHub == \A j \in Job : BehindRow(j, jobs[j])

(* k8s_pod identifies the job a runner is executing (JobExistsForPod), so  *)
(* no two rows carry the same runner.                                      *)
OneJobPerRunner ==
  \A j, k \in Job : (j # k /\ jobs[j].pod \in Pod) => jobs[j].pod # jobs[k].pod

(* A job is failed only on GitHub's word: it is gone there, or its         *)
(* workflow run is over.                                                   *)
FailedRow(j, r) ==
  /\ r.status = "failed" => r.info # "none"
  /\ r.info = "not_found" => j \in gone
  /\ r.info = "stuck_queued" => j \in runDone
FailedOnGitHubsWord == \A j \in Job : FailedRow(j, jobs[j])

(* The jobs table moves only forward, in the face of concurrent webhooks   *)
(* and of a transaction that commits rows it read long before.             *)
Lifecycle == INSTANCE JobLifecycle WITH row <- jobs
ForwardOnly == Lifecycle!Spec

(* Over(j): nothing will run job j any more.  Its row leaves the active    *)
(* set, and with it the demand the scheduler provisions for, even if no    *)
(* further webhook is ever delivered.                                      *)
Over(j) == ghState[j] = "completed" \/ j \in gone \/ j \in runDone
OverJobLeavesDemand ==
  \A j \in Job : (jobs[j].status \in ActiveStatus /\ Over(j))
                    ~> (jobs[j].status \in TerminalStatus)

(* A job that started does not stay pending, even if the in_progress       *)
(* webhook is lost.                                                        *)
StartedJobLeavesPending ==
  \A j \in Job : (jobs[j].status = "pending" /\ ghState[j] \in StartedStates)
                    ~> (jobs[j].status # "pending")

(* reconcileStuckQueued fails only jobs that "will never start": a job     *)
(* failed for being stuck was never taken by a runner.                     *)
StuckJobNeverRan ==
  \A j \in Job : jobs[j].info = "stuck_queued" => ghRunner[j] = Blank

=============================================================================
