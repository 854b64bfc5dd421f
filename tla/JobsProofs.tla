----------------------------- MODULE JobsProofs -----------------------------
(***************************************************************************)
(* Proofs about Jobs, for any sets of jobs and runners and any number of   *)
(* faults.  The argument: GitHub's state only moves forward, so a webhook  *)
(* or an answer that was true when it was produced stays true of the job   *)
(* however late it is applied (HooksTrue, AnswerTrue); the row statements  *)
(* keep a row true (RowOK); and the transaction writes a row at most once, *)
(* from a row nobody else can move until the commit (TxOK).                *)
(***************************************************************************)
EXTENDS Jobs, TLAPS

Adv(r, s) == Lifecycle!Advance(r, s)

(* Everything the invariants say of one row of job j.                      *)
RowOK(j, r) == /\ r \in Row
               /\ BehindRow(j, r)
               /\ FailedRow(j, r)
               /\ r.status = "absent" => r = AbsentRow

RunnersUnique == \A j, k \in Job :
                    (j # k /\ ghRunner[j] \in Pod) => ghRunner[j] # ghRunner[k]

(* What a message or an answer about job j claims holds of GitHub.         *)
Claim(j, status, runner) ==
  /\ ghState[j] # "unborn"
  /\ status = "in_progress" => ghState[j] \in StartedStates /\ runner = ghRunner[j]
  /\ status = "completed"   => ghState[j] = "completed" /\ runner = ghRunner[j]

HooksTrue  == \A m \in sent : Claim(m.job, m.action, m.runner)
AnswerTrue == pc = "apply" => /\ cur.job \in todo
                              /\ Claim(cur.job, cur.status, cur.runner)

RowsOK == \A j \in Job : RowOK(j, jobs[j])

TxOK == /\ pc = "idle" => dirty = {}
        /\ \A j \in todo : j \notin dirty /\ jobs[j].status # "absent"
        /\ \A j \in dirty : /\ RowOK(j, view[j])
                            /\ Adv(jobs[j], view[j])
                            /\ jobs[j].status # "absent"

IInv == TypeOK /\ RunnersUnique /\ HooksTrue /\ AnswerTrue /\ RowsOK /\ TxOK

-----------------------------------------------------------------------------
(* Lemmas about the row statements.                                        *)

USE NamesAssumption DEF RunnerName, ActiveStatus, TerminalStatus, Reason

(* A statement given a true claim leaves a true row, and either leaves the *)
(* row alone or moves it one step forward.                                 *)
LEMMA AddJobRowOK ==
  ASSUME NEW j \in Job, NEW r, RowOK(j, r), ghState[j] # "unborn"
  PROVE  /\ RowOK(j, AddJobRow(r))
         /\ AddJobRow(r) = r \/ Adv(r, AddJobRow(r))
         /\ r.status # "absent" => AddJobRow(r) = r
         /\ AddJobRow(r).status # "absent"
BY DEF RowOK, Row, AddJobRow, PendingRow, AbsentRow, BehindRow, FailedRow, Adv,
       Lifecycle!Advance, Lifecycle!Created, Lifecycle!PendingRow, Lifecycle!AbsentRow

LEMMA MarkRunningRowOK ==
  ASSUME TypeOK, NEW j \in Job, NEW r, RowOK(j, r),
         ghState[j] \in StartedStates
  PROVE  LET s == MarkRunningRow(r, ghRunner[j])
         IN  /\ RowOK(j, s)
             /\ s = r \/ Adv(r, s)
             /\ r.status # "absent" => s.status # "absent"
<1> DEFINE s == MarkRunningRow(r, ghRunner[j])
<1>1. ghRunner[j] \in RunnerName /\ ghRunner[j] # Null
  BY DEF TypeOK
<1>2. CASE r.status # "pending"
  BY <1>2 DEF MarkRunningRow
<1>3. CASE r.status = "pending"
  <2>1. s = [status |-> "running", pod |-> Coalesce(r.pod, ghRunner[j]), info |-> r.info]
    BY <1>3 DEF MarkRunningRow, RowOK, Row
  <2>2. s.pod # Null /\ s.pod = ghRunner[j] /\ (r.pod # Null => s.pod = r.pod)
    BY <1>1, <2>1 DEF Coalesce, RowOK, BehindRow
  <2>3. RowOK(j, s)
    BY <1>1, <1>3, <2>1, <2>2 DEF RowOK, Row, BehindRow, FailedRow
  <2>4. Adv(r, s)
    BY <1>3, <2>1, <2>2 DEF Adv, Lifecycle!Advance, Lifecycle!Started, Lifecycle!NamedOnce
  <2> QED BY <1>3, <2>1, <2>3, <2>4
<1> QED BY <1>2, <1>3

LEMMA MarkCompletedRowOK ==
  ASSUME TypeOK, NEW j \in Job, NEW r, RowOK(j, r),
         ghState[j] = "completed"
  PROVE  LET s == MarkCompletedRow(r, ghRunner[j])
         IN  /\ RowOK(j, s)
             /\ s = r \/ Adv(r, s)
             /\ r.status # "absent" => s.status # "absent"
<1> DEFINE s == MarkCompletedRow(r, ghRunner[j])
<1>1. ghRunner[j] \in RunnerName /\ ghRunner[j] # Null
  BY DEF TypeOK
<1>2. CASE r.status \notin ActiveStatus
  BY <1>2 DEF MarkCompletedRow
<1>3. CASE r.status \in ActiveStatus
  <2>1. s = [status |-> "completed", pod |-> Coalesce(r.pod, ghRunner[j]), info |-> r.info]
    BY <1>3 DEF MarkCompletedRow, RowOK, Row
  <2>2. s.pod # Null /\ s.pod = ghRunner[j] /\ (r.pod # Null => s.pod = r.pod)
    BY <1>1, <2>1 DEF Coalesce, RowOK, BehindRow
  <2>3. RowOK(j, s)
    BY <1>1, <1>3, <2>1, <2>2 DEF RowOK, Row, BehindRow, FailedRow, StartedStates
  <2>4. Adv(r, s)
    BY <1>3, <2>1, <2>2 DEF Adv, Lifecycle!Advance, Lifecycle!Completed, Lifecycle!NamedOnce, Lifecycle!ActiveStatus
  <2> QED BY <1>3, <2>1, <2>3, <2>4
<1> QED BY <1>2, <1>3

LEMMA MarkFailedRowOK ==
  ASSUME NEW j \in Job, NEW r, RowOK(j, r), NEW why \in Reason \ {"none"},
         why = "not_found" => j \in gone,
         why = "stuck_queued" => j \in runDone
  PROVE  LET s == MarkFailedRow(r, why)
         IN  /\ RowOK(j, s)
             /\ s = r \/ Adv(r, s)
             /\ r.status # "absent" => s.status # "absent"
<1> DEFINE s == MarkFailedRow(r, why)
<1>1. CASE r.status \notin ActiveStatus
  BY <1>1 DEF MarkFailedRow
<1>2. CASE r.status \in ActiveStatus
  <2>1. s = [status |-> "failed", pod |-> r.pod, info |-> why]
    BY <1>2 DEF MarkFailedRow, RowOK, Row
  <2>2. RowOK(j, s)
    BY <1>2, <2>1 DEF RowOK, Row, BehindRow, FailedRow
  <2>3. Adv(r, s)
    BY <1>2, <2>1 DEF Adv, Lifecycle!Advance, Lifecycle!Failed, Lifecycle!ActiveStatus
  <2> QED BY <1>2, <2>1, <2>2, <2>3
<1> QED BY <1>1, <1>2

-----------------------------------------------------------------------------
(* GitHub's steps: its state moves forward, and the rows, messages and     *)
(* answers that were true stay true.                                       *)

GHForward ==
  /\ \A j \in Job : /\ ghState[j] # "unborn" => ghState'[j] # "unborn"
                    /\ ghState[j] \in StartedStates =>
                         ghState'[j] \in StartedStates /\ ghRunner'[j] = ghRunner[j]
                    /\ ghState[j] = "completed" => ghState'[j] = "completed"
  /\ runDone \subseteq runDone' /\ gone \subseteq gone'
  /\ \A m \in sent' \ sent : Claim(m.job, m.action, m.runner)'

LEMMA GitHubForward ==
  ASSUME TypeOK, RunnersUnique, GitHub
  PROVE  TypeOK' /\ RunnersUnique' /\ GHForward
<1> PICK j \in Job : \/ GHQueue(j) \/ GHFinish(j) \/ GHRunEnds(j) \/ GHRemove(j)
                     \/ \E p \in Pod : GHStart(j, p)
  BY DEF GitHub
<1>1. CASE GHQueue(j)
  <2>1. Hook("queued", j, Blank) \in Hooks
    BY DEF Hook, Hooks
  <2>2. TypeOK'
    BY <1>1, <2>1 DEF TypeOK, GHQueue, GHStates, schedVars
  <2>3. RunnersUnique'
    BY <1>1 DEF GHQueue, RunnersUnique
  <2>4. GHForward
    BY <1>1 DEF TypeOK, GHQueue, GHForward, StartedStates, Claim, Hook
  <2> QED BY <2>2, <2>3, <2>4
<1>2. CASE GHFinish(j)
  <2>1. Hook("completed", j, ghRunner[j]) \in Hooks
    BY DEF Hook, Hooks, TypeOK
  <2>2. TypeOK'
    BY <1>2, <2>1 DEF TypeOK, GHFinish, GHStates, schedVars
  <2>3. RunnersUnique'
    BY <1>2 DEF GHFinish, RunnersUnique
  <2>4. GHForward
    BY <1>2 DEF TypeOK, GHFinish, GHForward, StartedStates, Claim, Hook
  <2> QED BY <2>2, <2>3, <2>4
<1>3. CASE GHRunEnds(j)
  <2>1. TypeOK'
    BY <1>3 DEF TypeOK, GHRunEnds, schedVars
  <2>2. RunnersUnique'
    BY <1>3 DEF GHRunEnds, RunnersUnique
  <2>3. GHForward
    BY <1>3 DEF GHRunEnds, GHForward
  <2> QED BY <2>1, <2>2, <2>3
<1>4. CASE GHRemove(j)
  <2>1. TypeOK'
    BY <1>4 DEF TypeOK, GHRemove, schedVars
  <2>2. RunnersUnique'
    BY <1>4 DEF GHRemove, RunnersUnique
  <2>3. GHForward
    BY <1>4 DEF GHRemove, GHForward
  <2> QED BY <2>1, <2>2, <2>3
<1>5. ASSUME NEW p \in Pod, GHStart(j, p) PROVE TypeOK' /\ RunnersUnique' /\ GHForward
  <2>1. Hook("in_progress", j, p) \in Hooks
    BY DEF Hook, Hooks
  <2>2. TypeOK'
    BY <1>5, <2>1 DEF TypeOK, GHStart, GHStates, schedVars
  <2>3. RunnersUnique'
    BY <1>5 DEF GHStart, RunnersUnique, TypeOK
  <2>4. GHForward
    BY <1>5 DEF TypeOK, GHStart, GHForward, StartedStates, Claim, Hook
  <2> QED BY <2>2, <2>3, <2>4
<1> QED BY <1>1, <1>2, <1>3, <1>4, <1>5

LEMMA RowOKForward ==
  ASSUME GHForward, NEW j \in Job, NEW r \in Row, RowOK(j, r)
  PROVE  BehindRow(j, r)' /\ FailedRow(j, r)'
BY DEF RowOK, GHForward, BehindRow, FailedRow, StartedStates

LEMMA GitHubPreserves ==
  ASSUME IInv, GitHub
  PROVE  IInv' /\ UNCHANGED jobs
<1>1. TypeOK' /\ RunnersUnique' /\ GHForward
  BY GitHubForward DEF IInv
<1>2. UNCHANGED <<jobs, schedVars>>
  BY DEF GitHub, GHQueue, GHStart, GHFinish, GHRunEnds, GHRemove
<1>3. \A j \in Job : \A status, runner : Claim(j, status, runner) => Claim(j, status, runner)'
  BY <1>1 DEF GHForward, Claim, StartedStates
<1>4. HooksTrue'
  <2> SUFFICES ASSUME NEW m \in sent' PROVE Claim(m.job, m.action, m.runner)'
    BY DEF HooksTrue
  <2>1. m.job \in Job
    BY <1>1 DEF TypeOK, Hooks
  <2> QED BY <1>1, <1>3, <2>1 DEF GHForward, IInv, HooksTrue
<1>5. AnswerTrue'
  BY <1>2, <1>3 DEF IInv, AnswerTrue, TypeOK, Answer, schedVars
<1>6. RowsOK'
  <2> SUFFICES ASSUME NEW j \in Job PROVE RowOK(j, jobs[j])'
    BY DEF RowsOK
  <2>1. RowOK(j, jobs[j]) /\ jobs[j] \in Row
    BY DEF IInv, RowsOK, RowOK
  <2>2. BehindRow(j, jobs[j])' /\ FailedRow(j, jobs[j])'
    BY <1>1, <1>2, <2>1, RowOKForward
  <2> QED BY <1>2, <2>1, <2>2 DEF RowOK
<1>7. TxOK'
  <2>1. ASSUME NEW j \in dirty PROVE RowOK(j, view[j])'
    <3>1. RowOK(j, view[j]) /\ view[j] \in Row /\ j \in Job
      BY DEF IInv, TxOK, RowOK, TypeOK
    <3>2. BehindRow(j, view[j])' /\ FailedRow(j, view[j])'
      BY <1>1, <1>2, <3>1, RowOKForward DEF schedVars
    <3> QED BY <1>2, <3>1, <3>2 DEF RowOK, schedVars
  <2> QED BY <1>2, <2>1 DEF IInv, TxOK, schedVars, Adv
<1> QED BY <1>1, <1>2, <1>4, <1>5, <1>6, <1>7 DEF IInv

-----------------------------------------------------------------------------
(* Webhooks: one row moves at most one step, and never a row the           *)
(* transaction has written.                                                *)

RowStep(j, r) ==   \* committed row j becomes r
  /\ jobs' = [jobs EXCEPT ![j] = r]
  /\ UNCHANGED <<ghVars, old, schedVars>>

LEMMA RowStepPreserves ==
  ASSUME IInv, NEW j \in Job, NEW r, RowStep(j, r), RowOK(j, r),
         r = jobs[j] \/ (Adv(jobs[j], r) /\ j \notin dirty),
         jobs[j].status # "absent" => r.status # "absent"
  PROVE  IInv' /\ Lifecycle!Next
<1> USE DEF RowStep, ghVars, schedVars
<1>1. TypeOK'
  BY DEF IInv, TypeOK, RowOK
<1>2. jobs'[j] = r /\ \A k \in Job : k # j => jobs'[k] = jobs[k]
  BY DEF IInv, TypeOK
<1>3. RowsOK'
  BY <1>2 DEF IInv, RowsOK, RowOK, BehindRow, FailedRow
<1>4. TxOK'
  <2>1. ASSUME NEW k \in dirty
        PROVE  RowOK(k, view[k])' /\ Adv(jobs[k], view[k])' /\ jobs'[k].status # "absent"
    <3>1. RowOK(k, view[k]) /\ Adv(jobs[k], view[k]) /\ jobs[k].status # "absent"
      BY DEF IInv, TxOK
    <3>2. jobs'[k] = jobs[k]
      BY <1>2 DEF IInv, TypeOK
    <3>3. RowOK(k, view[k])'
      BY <3>1 DEF RowOK, BehindRow, FailedRow
    <3> QED BY <3>1, <3>2, <3>3 DEF Adv, Lifecycle!Advance, Lifecycle!Created,
               Lifecycle!Started, Lifecycle!Completed, Lifecycle!Failed,
               Lifecycle!NamedOnce
  <2>2. ASSUME NEW k \in todo PROVE k \notin dirty /\ jobs'[k].status # "absent"
    BY <1>2 DEF IInv, TypeOK, TxOK
  <2> QED BY <2>1, <2>2 DEF IInv, TxOK
<1>5. RunnersUnique' /\ HooksTrue' /\ AnswerTrue'
  BY DEF IInv, RunnersUnique, HooksTrue, AnswerTrue, Claim
<1>6. Lifecycle!Next
  <2>1. \A k \in Job : jobs'[k] = jobs[k] \/ Lifecycle!Advance(jobs[k], jobs'[k])
    BY <1>2 DEF Adv
  <2> QED BY <1>1, <2>1 DEF TypeOK, Lifecycle!Next, Row, Lifecycle!Row,
             Lifecycle!RunnerName, Lifecycle!ActiveStatus,
             Lifecycle!TerminalStatus, Lifecycle!Reason
<1> QED BY <1>1, <1>3, <1>4, <1>5, <1>6 DEF IInv

LEMMA WebhookPreserves ==
  ASSUME IInv, NEW m \in sent, Webhook(m)
  PROVE  IInv' /\ Lifecycle!Next
<1> DEFINE j == m.job
<1>1. j \in Job /\ RowOK(j, jobs[j]) /\ Claim(j, m.action, m.runner)
  BY DEF IInv, TypeOK, Hooks, RowsOK, HooksTrue
<1>2. TypeOK /\ jobs \in [Job -> Row]
  BY DEF IInv, TypeOK
<1>3. j \in dirty => jobs[j].status # "absent"
  BY DEF IInv, TxOK
<1>4. CASE Queued(m)
  <2>1. RowStep(j, AddJobRow(jobs[j]))
    BY <1>4, <1>1, <1>2 DEF Queued, RowStep
  <2> QED BY <1>1, <1>3, <2>1, AddJobRowOK, RowStepPreserves DEF Claim
<1>5. CASE InProgress(m)
  <2>1. RowStep(j, MarkRunningRow(jobs[j], ghRunner[j])) /\ j \notin dirty
    BY <1>5, <1>1, <1>2 DEF InProgress, RowStep, Claim
  <2>2. ghState[j] \in StartedStates
    BY <1>5, <1>1 DEF InProgress, Claim
  <2> QED BY <1>1, <1>2, <2>1, <2>2, MarkRunningRowOK, RowStepPreserves
<1>6. CASE Completed(m)
  <2>1. RowStep(j, MarkCompletedRow(jobs[j], ghRunner[j])) /\ j \notin dirty
    BY <1>6, <1>1, <1>2 DEF Completed, RowStep, Claim
  <2>2. ghState[j] = "completed"
    BY <1>6, <1>1 DEF Completed, Claim
  <2> QED BY <1>1, <1>2, <2>1, <2>2, MarkCompletedRowOK, RowStepPreserves
<1> QED BY <1>4, <1>5, <1>6 DEF Webhook

-----------------------------------------------------------------------------
(* The transaction: a write to a row of todo, which is not dirty yet.      *)

LEMMA TxWritePreserves ==
  ASSUME IInv, NEW j \in todo, NEW r, TxWrite(j, r), RowOK(j, r),
         r = jobs[j] \/ Adv(jobs[j], r),
         todo' = todo \ {j}, pc' = "pick", pc # "idle", cur' \in Answer \union {Null},
         UNCHANGED <<ghVars, jobs, old, snap>>, faults' \in 0..MaxFaults
  PROVE  IInv'
<1> USE DEF ghVars
<1>1. j \in Job /\ j \notin dirty /\ TxRow(j) = jobs[j] /\ jobs[j].status # "absent"
  BY DEF IInv, TypeOK, TxOK, TxRow
<1>2. TypeOK'
  BY <1>1 DEF IInv, TypeOK, TxWrite, RowOK, NoAnswer
<1>3. TxOK'
  <2>1. CASE r = jobs[j]
    <3>1. UNCHANGED <<dirty, view>>
      BY <1>1, <2>1 DEF TxWrite
    <3> QED BY <3>1 DEF IInv, TxOK, RowOK, BehindRow, FailedRow, Adv
  <2>2. CASE r # jobs[j]
    <3>1. dirty' = dirty \union {j} /\ view'[j] = r
          /\ \A k \in Job : k # j => view'[k] = view[k]
      BY <1>1, <2>2 DEF TxWrite, IInv, TypeOK
    <3>2. ASSUME NEW k \in dirty'
          PROVE  RowOK(k, view[k])' /\ Adv(jobs[k], view[k])' /\ jobs'[k].status # "absent"
      <4>1. CASE k = j
        BY <1>1, <2>2, <3>1, <4>1 DEF RowOK, BehindRow, FailedRow, Adv,
           Lifecycle!Advance, Lifecycle!Created, Lifecycle!Started,
           Lifecycle!Completed, Lifecycle!Failed, Lifecycle!NamedOnce
      <4>2. CASE k # j
        <5>1. RowOK(k, view[k]) /\ Adv(jobs[k], view[k]) /\ jobs[k].status # "absent"
          BY <3>1, <4>2 DEF IInv, TxOK
        <5>2. view'[k] = view[k]
          BY <3>1, <4>2 DEF IInv, TypeOK
        <5> QED BY <5>1, <5>2 DEF RowOK, BehindRow, FailedRow, Adv,
           Lifecycle!Advance, Lifecycle!Created, Lifecycle!Started,
           Lifecycle!Completed, Lifecycle!Failed, Lifecycle!NamedOnce
      <4> QED BY <4>1, <4>2
    <3> QED BY <3>1, <3>2 DEF IInv, TxOK
  <2> QED BY <2>1, <2>2
<1>4. RowsOK' /\ RunnersUnique' /\ HooksTrue' /\ AnswerTrue'
  BY DEF IInv, RowsOK, RowOK, BehindRow, FailedRow, RunnersUnique, HooksTrue, AnswerTrue, Claim
<1> QED BY <1>2, <1>3, <1>4 DEF IInv

(* Leaving a row of todo alone is a write that changes nothing.            *)
LEMMA SkipPreserves ==
  ASSUME IInv, NEW j \in todo, UNCHANGED <<dirty, view>>,
         todo' = todo \ {j}, pc' = "pick", pc # "idle", cur' \in Answer \union {Null},
         UNCHANGED <<ghVars, jobs, old, snap>>, faults' \in 0..MaxFaults
  PROVE  IInv'
<1>1. j \in Job /\ RowOK(j, jobs[j]) /\ TxRow(j) = jobs[j]
  BY DEF IInv, TypeOK, RowsOK, TxOK, TxRow
<1>2. TxWrite(j, jobs[j])
  BY <1>1 DEF TxWrite
<1> QED BY <1>1, <1>2, TxWritePreserves

LEMMA ApplyPreserves ==
  ASSUME IInv, \/ ApplyCompleted \/ ApplyInProgress \/ ApplyQueued \/ RunError
  PROVE  IInv' /\ UNCHANGED jobs
<1> DEFINE j == cur.job
<1>1. pc = "apply" /\ Applied
  BY DEF ApplyCompleted, ApplyInProgress, ApplyQueued, RunError
<1>2. /\ j \in todo /\ j \in Job /\ RowOK(j, jobs[j]) /\ TxRow(j) = jobs[j]
      /\ Claim(j, cur.status, cur.runner)
  BY <1>1 DEF IInv, TypeOK, RowsOK, TxOK, TxRow, AnswerTrue
<1>3. /\ todo' = todo \ {j} /\ pc' = "pick" /\ pc # "idle"
      /\ cur' \in Answer \union {Null}
      /\ UNCHANGED <<ghVars, jobs, old, snap>>
  BY <1>1 DEF Applied, NoAnswer
<1>4. faults' \in 0..MaxFaults
  BY MaxFaultsAssumption DEF IInv, TypeOK, Fault, ApplyCompleted, ApplyInProgress,
     ApplyQueued, RunError
<1>5. TypeOK
  BY DEF IInv
<1>6. CASE UNCHANGED <<dirty, view>>
  BY <1>2, <1>3, <1>4, <1>6, SkipPreserves
<1>7. CASE ApplyCompleted
  <2> DEFINE r == MarkCompletedRow(jobs[j], ghRunner[j])
  <2>1. ghState[j] = "completed" /\ TxWrite(j, r)
    BY <1>2, <1>7 DEF ApplyCompleted, Claim
  <2>2. RowOK(j, r) /\ (r = jobs[j] \/ Adv(jobs[j], r))
    BY <1>2, <1>5, <2>1, MarkCompletedRowOK
  <2> QED BY <1>2, <1>3, <1>4, <2>1, <2>2, TxWritePreserves
<1>8. CASE ApplyInProgress /\ WasPending(j)
  <2> DEFINE r == MarkRunningRow(jobs[j], ghRunner[j])
  <2>1. ghState[j] \in StartedStates /\ TxWrite(j, r)
    BY <1>2, <1>8 DEF ApplyInProgress, Claim
  <2>2. RowOK(j, r) /\ (r = jobs[j] \/ Adv(jobs[j], r))
    BY <1>2, <1>5, <2>1, MarkRunningRowOK
  <2> QED BY <1>2, <1>3, <1>4, <2>1, <2>2, TxWritePreserves
<1>9. CASE ApplyQueued /\ StuckQueued(j)
  <2> DEFINE r == MarkFailedRow(jobs[j], "stuck_queued")
  <2>1. j \in runDone /\ TxWrite(j, r)
    BY <1>2, <1>9 DEF ApplyQueued, StuckQueued
  <2>2. RowOK(j, r) /\ (r = jobs[j] \/ Adv(jobs[j], r))
    BY <1>2, <2>1, MarkFailedRowOK
  <2> QED BY <1>2, <1>3, <1>4, <2>1, <2>2, TxWritePreserves
<1> QED BY <1>6, <1>7, <1>8, <1>9, <1>3 DEF ApplyInProgress, ApplyQueued, RunError

LEMMA PickPreserves ==
  ASSUME IInv, NEW j \in Job, ReadGone(j) \/ ReadJob(j) \/ ReadError(j)
  PROVE  IInv' /\ UNCHANGED jobs
<1>1. CASE ReadGone(j)
  <2> DEFINE r == MarkFailedRow(jobs[j], "not_found")
  <2>1. RowOK(j, jobs[j]) /\ TxRow(j) = jobs[j]
    BY <1>1 DEF IInv, RowsOK, TxOK, TxRow, ReadGone
  <2>2. RowOK(j, r) /\ (r = jobs[j] \/ Adv(jobs[j], r))
    BY <1>1, <2>1, MarkFailedRowOK DEF ReadGone
  <2>3. IInv'
    BY <1>1, <2>1, <2>2, TxWritePreserves DEF ReadGone, IInv, TypeOK, NoAnswer
  <2> QED BY <1>1, <2>3 DEF ReadGone
<1>2. CASE ReadJob(j)
  <2>1. PICK status \in Reported(j) :
          cur' = [job |-> j,
                  status |-> Effective(status, ghState[j] = "completed"),
                  runner |-> ghRunner[j]]
    BY <1>2 DEF ReadJob
  <2>2. ghState[j] # "unborn"
    BY <1>2 DEF ReadJob, IInv, TxOK, RowsOK, RowOK, BehindRow
  <2>3. cur' \in Answer
    BY <2>1, <2>2 DEF Answer, Reported, Effective, IInv, TypeOK, GHStates
  <2>4. Claim(j, cur'.status, cur'.runner)
    BY <2>1, <2>2 DEF Claim, Reported, Effective, StartedStates, IInv, TypeOK, GHStates
  <2>5. TypeOK' /\ RunnersUnique' /\ HooksTrue' /\ RowsOK' /\ TxOK'
    BY <1>2, <2>3 DEF ReadJob, ghVars, IInv, TypeOK, RunnersUnique, HooksTrue, Claim,
       RowsOK, RowOK, BehindRow, FailedRow, TxOK, Adv
  <2>6. AnswerTrue'
    BY <1>2, <2>1, <2>4 DEF ReadJob, AnswerTrue, Claim, ghVars
  <2> QED BY <1>2, <2>5, <2>6 DEF IInv, ReadJob
<1>3. CASE ReadError(j)
  <2>1. faults' \in 0..MaxFaults
    BY <1>3, MaxFaultsAssumption DEF ReadError, Fault, IInv, TypeOK
  <2>2. IInv'
    BY <1>3, <2>1, SkipPreserves DEF ReadError, IInv, TypeOK, NoAnswer
  <2> QED BY <1>3, <2>2 DEF ReadError
<1> QED BY <1>1, <1>2, <1>3

LEMMA BeginPreserves ==
  ASSUME IInv, BeginSync
  PROVE  IInv' /\ UNCHANGED jobs
<1>1. TypeOK'
  BY DEF IInv, TypeOK, BeginSync, ghVars, Row
<1>2. TxOK'
  BY DEF IInv, TypeOK, BeginSync, TxOK, Adv
<1>3. RunnersUnique' /\ HooksTrue' /\ AnswerTrue' /\ RowsOK'
  BY DEF IInv, BeginSync, ghVars, RunnersUnique, HooksTrue, AnswerTrue, Claim,
     RowsOK, RowOK, BehindRow, FailedRow
<1> QED BY <1>1, <1>2, <1>3 DEF IInv, BeginSync

LEMMA EndTxOK ==
  ASSUME IInv, EndTx, UNCHANGED <<ghVars, old>>, faults' \in 0..MaxFaults,
         jobs' \in [Job -> Row], RowsOK'
  PROVE  IInv'
<1>1. EmptyTable \in [Job -> Row] /\ NoSnap \in [Job -> {"absent"}]
  BY DEF EmptyTable, AbsentRow, Row, NoSnap
<1>2. TypeOK'
  BY <1>1 DEF IInv, TypeOK, EndTx, ghVars, NoAnswer
<1>3. TxOK' /\ AnswerTrue' /\ RunnersUnique' /\ HooksTrue'
  BY DEF IInv, EndTx, TxOK, AnswerTrue, ghVars, RunnersUnique, HooksTrue, Claim
<1> QED BY <1>2, <1>3 DEF IInv

(* The commit publishes rows that are each one step ahead of what is       *)
(* committed, so the whole of it is one step of the abstract table.        *)
LEMMA CommitPreserves ==
  ASSUME IInv, Commit
  PROVE  IInv' /\ Lifecycle!Next
<1>1. \A j \in Job : /\ RowOK(j, TxRow(j)) /\ TxRow(j) \in Row
                     /\ TxRow(j) = jobs[j] \/ Adv(jobs[j], TxRow(j))
  BY DEF IInv, TypeOK, RowsOK, TxOK, TxRow, RowOK
<1>2. jobs' = [j \in Job |-> TxRow(j)]
  BY DEF Commit
<1>3. jobs' \in [Job -> Row]
  BY <1>1, <1>2
<1>4. RowsOK'
  BY <1>1, <1>2 DEF RowsOK, RowOK, BehindRow, FailedRow, Commit, ghVars
<1>5. IInv'
  BY <1>3, <1>4, EndTxOK DEF Commit, IInv, TypeOK
<1>6. Lifecycle!Next
  BY <1>1, <1>2, <1>3 DEF Adv, Lifecycle!Next, Row, Lifecycle!Row,
     Lifecycle!RunnerName, Lifecycle!ActiveStatus, Lifecycle!TerminalStatus,
     Lifecycle!Reason
<1> QED BY <1>5, <1>6

LEMMA AbortPreserves ==
  ASSUME IInv, Abort
  PROVE  IInv' /\ UNCHANGED jobs
<1>1. faults' \in 0..MaxFaults
  BY MaxFaultsAssumption DEF Abort, Fault, IInv, TypeOK
<1>2. RowsOK' /\ jobs' \in [Job -> Row]
  BY DEF Abort, IInv, TypeOK, RowsOK, RowOK, BehindRow, FailedRow, ghVars
<1> QED BY <1>1, <1>2, EndTxOK DEF Abort

LEMMA AgePreserves ==
  ASSUME IInv, NEW j \in Job, JobAges(j)
  PROVE  IInv' /\ UNCHANGED jobs
BY DEF JobAges, IInv, TypeOK, RunnersUnique, HooksTrue, AnswerTrue, Claim, RowsOK,
   RowOK, BehindRow, FailedRow, TxOK, Adv, ghVars, schedVars

-----------------------------------------------------------------------------
LEMMA InitIInv == Init => IInv
<1> SUFFICES ASSUME Init PROVE IInv
  OBVIOUS
<1>1. EmptyTable \in [Job -> Row] /\ NoSnap \in [Job -> {"absent"}]
  BY DEF EmptyTable, AbsentRow, Row, NoSnap
<1>2. TypeOK
  BY <1>1, MaxFaultsAssumption DEF Init, TypeOK, GHStates, NoAnswer
<1>3. RowsOK
  BY <1>1 DEF Init, RowsOK, RowOK, BehindRow, FailedRow, EmptyTable, AbsentRow
<1>4. RunnersUnique /\ HooksTrue /\ AnswerTrue /\ TxOK
  BY DEF Init, RunnersUnique, HooksTrue, AnswerTrue, TxOK
<1> QED BY <1>2, <1>3, <1>4 DEF IInv

(* Every step keeps the invariant and is a step, or a stutter, of the      *)
(* abstract table.                                                         *)
LEMMA StepIInv == IInv /\ [Next]_vars => IInv' /\ [Lifecycle!Next]_jobs
<1> SUFFICES ASSUME IInv, [Next]_vars PROVE IInv' /\ [Lifecycle!Next]_jobs
  OBVIOUS
<1>1. CASE GitHub
  BY <1>1, GitHubPreserves
<1>2. ASSUME NEW m \in sent, Webhook(m) PROVE IInv' /\ Lifecycle!Next
  BY <1>2, WebhookPreserves
<1>3. ASSUME NEW j \in Job, JobAges(j) PROVE IInv' /\ UNCHANGED jobs
  BY <1>3, AgePreserves
<1>4. CASE SchedStep
  BY <1>4, BeginPreserves, ApplyPreserves, CommitPreserves, PickPreserves DEF SchedStep
<1>5. CASE SchedFault
  BY <1>5, AbortPreserves, ApplyPreserves, PickPreserves DEF SchedFault
<1>6. CASE UNCHANGED vars
  BY <1>6 DEF vars, IInv, TypeOK, RunnersUnique, HooksTrue, AnswerTrue, Claim, RowsOK,
     RowOK, BehindRow, FailedRow, TxOK, Adv, ghVars, schedVars
<1> QED BY <1>1, <1>2, <1>3, <1>4, <1>5, <1>6 DEF Next

THEOREM Inductive == Spec => []IInv
BY InitIInv, StepIInv, PTL DEF Spec

(* TypeOK holds for every set of jobs, of runners, and bound on faults.    *)
THEOREM TypeCorrect == Spec => []TypeOK
<1>1. IInv => TypeOK
  BY DEF IInv
<1> QED BY <1>1, Inductive, PTL

(* Whatever the order, age or number of webhooks, and wherever the         *)
(* scheduler crashes, a committed row is never ahead of GitHub.            *)
THEOREM NeverAhead == Spec => []RowBehindGitHub
<1>1. IInv => RowBehindGitHub
  BY DEF IInv, RowsOK, RowOK, RowBehindGitHub
<1> QED BY <1>1, Inductive, PTL

(* k8s_pod identifies at most one job.                                     *)
THEOREM RunnerHasOneJob == Spec => []OneJobPerRunner
<1>1. IInv => OneJobPerRunner
  BY DEF IInv, RowsOK, RowOK, BehindRow, RunnersUnique, OneJobPerRunner
<1> QED BY <1>1, Inductive, PTL

(* A job is failed only if GitHub said so.                                 *)
THEOREM FailuresAreReported == Spec => []FailedOnGitHubsWord
<1>1. IInv => FailedOnGitHubsWord
  BY DEF IInv, RowsOK, RowOK, FailedOnGitHubsWord
<1> QED BY <1>1, Inductive, PTL

(* Jobs implements JobLifecycle: webhooks and the scheduler's long         *)
(* transaction together move each row forward only.                        *)
THEOREM Refinement == Spec => ForwardOnly
<1>1. Init => Lifecycle!Init
  BY DEF Init, Lifecycle!Init, EmptyTable, Lifecycle!EmptyTable, AbsentRow,
     Lifecycle!AbsentRow
<1> QED BY <1>1, Inductive, StepIInv, PTL DEF Spec, ForwardOnly, Lifecycle!Spec

=============================================================================
