---------------------------- MODULE JobLifecycle ----------------------------
(***************************************************************************)
(* What the jobs table promises to its readers (demand matching, the       *)
(* dashboards, the usage report): a row is created pending, moves only     *)
(* forward, names its runner at most once, and never changes again once    *)
(* it is completed or failed.  Nothing is said of who writes it or when.   *)
(***************************************************************************)
EXTENDS JobTable

VARIABLE row

Created(r, s)   == r = AbsentRow /\ s = PendingRow

(* k8s_pod is written by the step that learns the runner, and only once.   *)
NamedOnce(r, s) == r.pod # Null => s.pod = r.pod

Started(r, s)   == /\ r.status = "pending" /\ s.status = "running"
                   /\ NamedOnce(r, s) /\ s.pod # Null
                   /\ s.info = r.info

Completed(r, s) == /\ r.status \in ActiveStatus /\ s.status = "completed"
                   /\ NamedOnce(r, s) /\ s.pod # Null
                   /\ s.info = r.info

Failed(r, s)    == /\ r.status \in ActiveStatus /\ s.status = "failed"
                   /\ s.pod = r.pod
                   /\ s.info # "none"

Advance(r, s) == Created(r, s) \/ Started(r, s) \/ Completed(r, s) \/ Failed(r, s)

Init == row = EmptyTable

(* One transaction may move several rows, each by one step.                *)
Next == /\ row' \in [Job -> Row]
        /\ \A j \in Job : row'[j] = row[j] \/ Advance(row[j], row'[j])

Spec == Init /\ [][Next]_row

=============================================================================
