------------------------------ MODULE JobTable ------------------------------
(***************************************************************************)
(* The jobs table of internal/db.go: one row per workflow job, and the     *)
(* guarded statements that write it.  A statement is an operator from the  *)
(* row it finds to the row it leaves; an UPDATE whose WHERE clause does    *)
(* not match leaves the row as it is.                                      *)
(*                                                                         *)
(* A row keeps the columns the program decides on: status, k8s_pod (the    *)
(* runner that took the job) and, for failure_info, which of the           *)
(* scheduler's two reasons was recorded.                                   *)
(***************************************************************************)

CONSTANTS
  Job,    \* job ids
  Pod,    \* names of runners, which are also the names of their pods
  Null,   \* the SQL NULL of k8s_pod
  Blank   \* the empty runner_name of a job no runner ever took

ASSUME NamesAssumption == Null \notin Pod /\ Blank \notin Pod /\ Null # Blank

RunnerName == Pod \union {Blank}

ActiveStatus   == {"pending", "running"}
TerminalStatus == {"completed", "failed"}
Reason         == {"none", "not_found", "stuck_queued"}

Row == [status : {"absent"} \union ActiveStatus \union TerminalStatus,
        pod    : RunnerName \union {Null},
        info   : Reason]

AbsentRow  == [status |-> "absent",  pod |-> Null, info |-> "none"]
PendingRow == [status |-> "pending", pod |-> Null, info |-> "none"]
EmptyTable == [j \in Job |-> AbsentRow]

Coalesce(old, new) == IF old = Null THEN new ELSE old

(* Mutant: the row is stored with GitHub's word for its state.             *)
AddJobRowQueued(row) ==
  IF row.status = "absent" THEN [PendingRow EXCEPT !.status = "queued"] ELSE row

(* Mutant: ON CONFLICT DO UPDATE SET status = 'pending'.                   *)
AddJobRowUpsert(row) == [row EXCEPT !.status = "pending"]

(* INSERT ... ON CONFLICT (job_id) DO NOTHING.                             *)
AddJobRow(row) == IF row.status = "absent" THEN PendingRow ELSE row

(* Mutant: the UPDATE has no condition on the status.                      *)
MarkRunningRowAlways(row, runner) ==
  IF row.status # "absent"
    THEN [row EXCEPT !.status = "running", !.pod = Coalesce(@, runner)]
    ELSE row

MarkRunningRow(row, runner) ==
  IF row.status = "pending"
    THEN [row EXCEPT !.status = "running", !.pod = Coalesce(@, runner)]
    ELSE row

MarkCompletedRow(row, runner) ==
  IF row.status \in ActiveStatus
    THEN [row EXCEPT !.status = "completed", !.pod = Coalesce(@, runner)]
    ELSE row

MarkFailedRow(row, reason) ==
  IF row.status \in ActiveStatus
    THEN [row EXCEPT !.status = "failed", !.info = reason]
    ELSE row

=============================================================================
