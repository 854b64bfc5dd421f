------------------------------ MODULE Webhook -------------------------------
(***************************************************************************)
(* ghfe, the service GitHub delivers webhooks to: handleWebhook and the    *)
(* handlers it dispatches to, in two environments that share the GitHub    *)
(* App.  GitHub delivers to prod; prod forwards the workflow_job webhooks  *)
(* of staging entities to the ghfe of staging, which has its own tables,   *)
(* and relays its answer.                                                  *)
(*                                                                         *)
(* Each delivery may be attempted several times, also at once, and each    *)
(* attempt is handled by a goroutine of its own: its verdict on the        *)
(* message depends on nothing but the message, then come the statement on  *)
(* the jobs table, the row of installation_events, the forwarding, and the *)
(* answer, each its own transaction or call.                               *)
(*                                                                         *)
(* Faults are of the kinds in Faults, MaxFaults in all.  A process that    *)
(* is stopped loses its handlers like one that crashes: main returns as    *)
(* soon as Shutdown begins.                                                *)
(***************************************************************************)
EXTENDS JobTable, LabelRouting

CONSTANTS
  Delivery,          \* GitHub's deliveries
  MaxAttempts,       \* bound: attempts at one delivery
  MaxRedeliveries,   \* bound: attempts that are not the first
  Messages,          \* what a delivery may carry
  Kinds,             \* what a job may be
  BannedEntities, BannedSenders, StagingEntities,
  Faults, MaxFaults  \* kinds of fault that may happen, bound on their number

FaultKinds == {"db", "log", "net", "crash"}

Message == [event : STRING, action : STRING, job : Job, public : BOOLEAN, sender : STRING,
            runner : RunnerName, lacks : {"nothing", "identity", "job", "url"}]
JobKind == [entity : STRING, labels : Seq(STRING)]

ASSUME WebhookAssumption ==
  /\ MaxAttempts \in Nat \ {0} /\ MaxRedeliveries \in Nat /\ MaxFaults \in Nat
  /\ Messages \subseteq Message /\ Null \notin Messages
  /\ Kinds \subseteq JobKind
  /\ Faults \subseteq FaultKinds

VARIABLES
  kind,    \* GitHub: the entity and labels of each job
  msg,     \* GitHub: what each delivery carries
  req,     \* the handler of each attempt, in each environment
  jobs,    \* the jobs table of each environment
  place,   \* its columns k8s_selector and k8s_image
  log,     \* outcomes of the rows of installation_events, by attempt
  faults

tables == <<jobs, place>>
vars   == <<kind, msg, req, tables, log, faults>>

Env     == {"prod", "staging"}
Attempt == 1..MaxAttempts
Handler == Env \X Delivery \X Attempt

JobActions  == {"queued", "in_progress", "completed"}
KnownEvents == {"ping", "installation", "installation_repositories", "installation_target"}
Outcomes    == {"ok", "ignored_event", "banned_entity", "proxied_to_staging",
                "ignored_action", "ignored_no_label", "job_stored",
                "job_already_exists", "job_marked_running",
                "job_marked_completed", "job_not_found"}
Codes       == {0, 200, 400, 500, 502}   \* 0: not answered

Unset    == [pc |-> "none", outcome |-> "ok", code |-> 0]
PCs      == {"none", "write", "lookup", "log", "forward", "wait", "over"}
State    == [pc : PCs, outcome : Outcomes, code : Codes]
Pools    == {r.pool : r \in Range(LabelRoutes)}

TypeOK ==
  /\ kind \in [Job -> Kinds]
  /\ msg \in [Delivery -> Messages \union {Null}]
  /\ req \in [Handler -> State]
  /\ jobs \in [Env -> [Job -> Row]]
  /\ place \in [Env -> [Job -> (Pools \X {U24, U26}) \union {Null}]]
  /\ log \in [Handler -> Seq(Outcomes)] /\ \A h \in Handler : Len(log[h]) <= 1
  /\ faults \in 0..MaxFaults

Init ==
  /\ kind \in [Job -> Kinds]
  /\ msg = [d \in Delivery |-> Null]
  /\ req = [h \in Handler |-> Unset]
  /\ jobs = [e \in Env |-> EmptyTable]
  /\ place = [e \in Env |-> [j \in Job |-> Null]]
  /\ log = [h \in Handler |-> <<>>]
  /\ faults = 0

Fault(k) == k \in Faults /\ faults < MaxFaults /\ faults' = faults + 1
NoFault  == UNCHANGED faults

-----------------------------------------------------------------------------
(* The verdict on a message.  What it lacks is told apart by where it is   *)
(* missed: "identity" (a signature, header, or part of the JSON body       *)
(* without which no row can be written), "job" (its id or repository) or   *)
(* "url" (what only a new job needs).                                      *)

Entity(m) == kind[m.job].entity
Labels(m) == kind[m.job].labels

Banned(m) == \/ ~m.public
             \/ Entity(m) \in BannedEntities
             \/ m.sender \in BannedSenders

shouldProxyToStaging(e, m) == e = "prod" /\ Entity(m) \in StagingEntities

(* Mutant: the proxy is looked at before the bans.                         *)
VerdictProxyFirst(e, m) ==
  IF m.lacks = "identity" THEN "bad_request"
  ELSE IF m.event # "workflow_job" THEN "ok"
  ELSE IF shouldProxyToStaging(e, m) THEN "proxied_to_staging"
  ELSE IF Banned(m) THEN "banned_entity"
  ELSE "served"

Verdict(e, m) ==
  IF m.lacks = "identity" THEN "bad_request"
  ELSE IF m.event # "workflow_job"
    THEN IF m.event \in KnownEvents THEN "ok" ELSE "ignored_event"
  ELSE IF Banned(m) THEN "banned_entity"
  ELSE IF shouldProxyToStaging(e, m) THEN "proxied_to_staging"
  ELSE IF m.action \notin JobActions THEN "ignored_action"
  ELSE IF m.lacks = "job" THEN "bad_request"
  ELSE IF ~Matched(Entity(m), Labels(m)) THEN "ignored_no_label"
  ELSE IF m.action = "queued" /\ m.lacks = "url" THEN "bad_request"
  ELSE "served"

Opening(v) ==
  CASE v = "bad_request" -> [Unset EXCEPT !.pc = "over", !.code = 400]
    [] v = "served"      -> [Unset EXCEPT !.pc = "write"]
    [] OTHER             -> [Unset EXCEPT !.pc = "log", !.outcome = v]

(* GitHub makes a delivery, or makes it again: because no answer came, or  *)
(* not a good one, or because somebody asked for it.                       *)
Deliver(d, m) ==
  /\ msg[d] = Null
  /\ msg' = [msg EXCEPT ![d] = m]
  /\ req' = [req EXCEPT ![<<"prod", d, 1>>] = Opening(Verdict("prod", m))]
  /\ UNCHANGED <<kind, tables, log, faults>>

Redeliver(d, n) ==
  /\ req[<<"prod", d, n - 1>>].pc # "none" /\ req[<<"prod", d, n>>].pc = "none"
  /\ Cardinality({h \in Handler : h[1] = "prod" /\ h[3] > 1 /\ req[h].pc # "none"})
       < MaxRedeliveries
  /\ req' = [req EXCEPT ![<<"prod", d, n>>] = Opening(Verdict("prod", msg[d]))]
  /\ UNCHANGED <<kind, msg, tables, log, faults>>

-----------------------------------------------------------------------------
(* The statement on the jobs table.                                        *)

Msg(h) == msg[h[2]]
At(h, pc) == req[h].pc = pc
Answer(h, c) == req' = [req EXCEPT ![h].pc = "over", ![h].code = c]
ToLog(h, o) == req' = [req EXCEPT ![h].pc = "log", ![h].outcome = o]

(* The prod handler that forwarded this one's request has hung up.         *)
Parent(h) == <<"prod", h[2], h[3]>>
HungUp(h) == h[1] = "staging" /\ req[Parent(h)].pc = "over"

(* Mutant: the outcome does not ask whether a row was inserted.            *)
StoredAlways(old) == "job_stored"
Stored(old) == IF old.status = "absent" THEN "job_stored" ELSE "job_already_exists"

Inserted(h) ==
  LET e == h[1]  j == Msg(h).job
      r == matchLabelsToK8s(Entity(Msg(h)), Labels(Msg(h)))
  IN /\ jobs' = [jobs EXCEPT ![e][j] = AddJobRow(@)]
     /\ place' = IF jobs[e][j].status = "absent"
                   THEN [place EXCEPT ![e][j] = <<r.pool, r.image>>] ELSE place

AddJob(h) ==
  /\ At(h, "write") /\ Msg(h).action = "queued"
  /\ Inserted(h)
  /\ ToLog(h, Stored(jobs[h[1]][Msg(h).job]))
  /\ UNCHANGED <<kind, msg, log, faults>>

Marked(row, m) ==
  IF m.action = "in_progress" THEN MarkRunningRow(row, m.runner)
                              ELSE MarkCompletedRow(row, m.runner)
MarkOutcome(m) == IF m.action = "in_progress" THEN "job_marked_running"
                                              ELSE "job_marked_completed"

Updated(h) ==
  /\ jobs' = [jobs EXCEPT ![h[1]][Msg(h).job] = Marked(@, Msg(h))]
  /\ UNCHANGED place

(* MarkJobRunning and MarkJobCompleted: an UPDATE, and when it matches no  *)
(* row a SELECT of its own that looks for the reason.                      *)
MarkJob(h) ==
  /\ At(h, "write") /\ Msg(h).action \in {"in_progress", "completed"}
  /\ Updated(h)
  /\ IF UNCHANGED jobs THEN req' = [req EXCEPT ![h].pc = "lookup"]
                       ELSE ToLog(h, MarkOutcome(Msg(h)))
  /\ UNCHANGED <<kind, msg, log, faults>>

LookUp(h) ==
  /\ At(h, "lookup")
  /\ ToLog(h, IF jobs[h[1]][Msg(h).job].status = "absent"
                THEN "job_not_found" ELSE MarkOutcome(Msg(h)))
  /\ UNCHANGED <<kind, msg, tables, log, faults>>

(* A statement fails, or its answer is lost.  The SELECT tests its result  *)
(* before its error, so that its failure reads as a row not found.         *)
Fails(h, k) == Fault(k) \/ (HungUp(h) /\ NoFault)

(* Mutant: the error of a statement is only logged.                        *)
OnErrorAccepted == 200
OnError == 500

StatementFails(h) ==
  /\ Fails(h, "db")
  /\ \/ /\ At(h, "write") /\ Answer(h, OnError)
        /\ \/ UNCHANGED tables
           \/ Msg(h).action = "queued" /\ Inserted(h)
           \/ Msg(h).action # "queued" /\ Updated(h)
     \/ At(h, "lookup") /\ ToLog(h, "job_not_found") /\ UNCHANGED tables
  /\ UNCHANGED <<kind, msg, log>>

-----------------------------------------------------------------------------
(* The row of installation_events.  Which fields of the payload it keeps   *)
(* depends on the outcome alone and is left out.                           *)

(* Mutant: what is not served leaves no row.                               *)
recordServed(h) ==
  /\ log' = IF Verdict(h[1], Msg(h)) = "served"
              THEN [log EXCEPT ![h] = Append(@, req[h].outcome)] ELSE log
  /\ NoFault

(* An error writing the row is logged, and the handler goes on.            *)
recordEvent(h) ==
  \/ log' = [log EXCEPT ![h] = Append(@, req[h].outcome)] /\ NoFault
  \/ Fails(h, "log") /\ UNCHANGED log

Record(h) ==
  /\ At(h, "log") /\ recordEvent(h)
  /\ IF req[h].outcome = "proxied_to_staging"
       THEN req' = [req EXCEPT ![h].pc = "forward"] ELSE Answer(h, 200)
  /\ UNCHANGED <<kind, msg, tables>>

-----------------------------------------------------------------------------
(* proxyToStaging.                                                         *)

Child(h) == <<"staging", h[2], h[3]>>

Forward(h) ==
  /\ At(h, "forward")
  /\ \/ /\ NoFault
        /\ req' = [req EXCEPT ![h].pc = "wait",
                              ![Child(h)] = Opening(Verdict("staging", Msg(h)))]
     \/ Fault("net") /\ Answer(h, 502)
  /\ UNCHANGED <<kind, msg, tables, log>>

Relay(h) ==
  /\ At(h, "wait") /\ req[Child(h)].code # 0
  /\ Answer(h, req[Child(h)].code)
  /\ UNCHANGED <<kind, msg, tables, log, faults>>

(* The connection breaks, or the ten seconds of the client are over.       *)
ProxyFails(h) ==
  /\ At(h, "wait") /\ req[Child(h)].code = 0
  /\ Answer(h, 502)
  /\ UNCHANGED <<kind, msg, tables, log, faults>>

(* The process ends with its handlers in flight.                           *)
Crash(e) ==
  /\ Fault("crash")
  /\ \E h \in Handler : h[1] = e /\ req[h].pc \notin {"none", "over"}
  /\ req' = [h \in Handler |-> IF h[1] = e /\ req[h].pc # "none"
                                 THEN [req[h] EXCEPT !.pc = "over"] ELSE req[h]]
  /\ UNCHANGED <<kind, msg, tables, log>>

Step(h) == \/ AddJob(h) \/ MarkJob(h) \/ LookUp(h) \/ StatementFails(h)
           \/ Record(h) \/ Forward(h) \/ Relay(h) \/ ProxyFails(h)

Next ==
  \/ \E d \in Delivery, m \in Messages : Deliver(d, m)
  \/ \E d \in Delivery, n \in Attempt \ {1} : Redeliver(d, n)
  \/ \E h \in Handler : Step(h)
  \/ \E e \in Env : Crash(e)

Spec == Init /\ [][Next]_vars

-----------------------------------------------------------------------------
(* Properties.                                                             *)

Home(j) == IF kind[j].entity \in StagingEntities THEN "staging" ELSE "prod"

NewJob(m) == /\ m.event = "workflow_job" /\ m.action = "queued" /\ m.lacks = "nothing"
             /\ ~Banned(m) /\ Matched(Entity(m), Labels(m))

(* GitHub does not deliver again what was answered 200: by then a job that *)
(* is to be run is in the table of its environment, whatever failed.       *)
AcknowledgedJobStored ==
  \A d \in Delivery, n \in Attempt :
     req[<<"prod", d, n>>].code = 200 /\ NewJob(msg[d]) =>
        jobs[Home(msg[d].job)][msg[d].job].status # "absent"

(* A job is stored only for a webhook that asked for it, in one            *)
(* environment, and with the pool its labels name: that of the entity's    *)
(* own route if it has one for them, the shared one otherwise.             *)
OwnRoutes(j) ==
  LET labels == kind[j].labels
      same   == {r \in Range(LabelRoutes) :
                   r.labels = Range(labels) /\ Len(labels) = Cardinality(Range(labels))}
      own    == {r \in same : kind[j].entity \in r.entities}
  IN IF own # {} THEN own ELSE {r \in same : Open(r)}

StoredWhereItBelongs ==
  \A e \in Env, j \in Job : jobs[e][j].status # "absent" =>
     /\ e = Home(j)
     /\ \E d \in Delivery : msg[d] # Null /\ msg[d].job = j /\ NewJob(msg[d])
     /\ place[e][j] \in {<<r.pool, r.image>> : r \in OwnRoutes(j)}

(* A webhook of a banned sender or entity, or of a private repository,     *)
(* reaches neither environment, staging entities included.                 *)
BannedReachesNeither ==
  \A d \in {d \in Delivery : msg[d] # Null} :
     msg[d].event = "workflow_job" /\ Banned(msg[d]) =>
        \A n \in Attempt :
           /\ req[<<"staging", d, n>>].pc = "none"
           /\ req[<<"prod", d, n>>].pc \notin {"write", "lookup", "forward", "wait"}

(* Every accepted webhook leaves exactly one row, and one more in staging  *)
(* when it was forwarded.                                                  *)
AcceptedHasRow ==
  \A d \in Delivery, n \in Attempt :
     req[<<"prod", d, n>>].code = 200 =>
        /\ Len(log[<<"prod", d, n>>]) = 1
        /\ \/ Verdict("prod", msg[d]) # "proxied_to_staging"
           \/ Len(log[<<"staging", d, n>>]) = 1

(* The log agrees with the table: of all attempts at all deliveries of a   *)
(* job, at most one stored it, and nothing is marked that is not there.    *)
LogAgreesWithTable ==
  \A e \in Env, j \in Job :
     LET of(o) == {h \in Handler : h[1] = e /\ o \in Range(log[h]) /\ Msg(h).job = j}
     IN /\ Cardinality(of("job_stored")) <= 1
        /\ (\E o \in {"job_stored", "job_already_exists", "job_marked_running",
                      "job_marked_completed"} : of(o) # {}) => jobs[e][j].status # "absent"

(* In each environment a row keeps what JobLifecycle promises: repeated,   *)
(* reordered and concurrent webhooks, lost answers and processes that end  *)
(* move it forward only, and name its runner once.                         *)
Prod    == INSTANCE JobLifecycle WITH row <- jobs["prod"]
Staging == INSTANCE JobLifecycle WITH row <- jobs["staging"]
TablesForward == Prod!Spec /\ Staging!Spec

=============================================================================
