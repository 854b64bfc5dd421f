---------------------------- MODULE WebhookProofs -----------------------------
(***************************************************************************)
(* Proofs about Webhook, for any jobs, messages, deliveries, attempts and  *)
(* faults.  First the table of routes: the first that fits is a job's own  *)
(* (RouteIsOwn).  Then the invariant: what is in the tables was asked for  *)
(* and is where it belongs (TableOK); a handler's verdict, row and answer  *)
(* go together with what the table holds, and with the handler of the      *)
(* other environment (HandlersOK); and one handler only has stored a job   *)
(* (StoredOnce).  A step touches one handler, or two when one forwards:    *)
(* Frame shows that the others keep their claims.  Last, as one statement  *)
(* moves one row, each table implements JobLifecycle.                      *)
(***************************************************************************)
EXTENDS Webhook, SequenceTheorems, FiniteSetTheorems, TLAPS

(* A nonempty set of places in the table has a first one.                  *)
LEMMA FirstPlace ==
  ASSUME NEW S \in SUBSET (1..13), S # {}
  PROVE  Min(S) \in S /\ \A i \in S : Min(S) <= i
<1>1. \E i \in S : \A k \in S : i <= k
  <2>1. SUFFICES ASSUME \A i \in S : \E k \in S : k < i
                 PROVE  FALSE
    OBVIOUS
  <2>2. 1 \notin S
    BY <2>1
  <2>3. 2 \notin S
    BY <2>1, <2>2
  <2>4. 3 \notin S
    BY <2>1, <2>2, <2>3
  <2>5. 4 \notin S
    BY <2>1, <2>2, <2>3, <2>4
  <2>6. \A i \in S : i \in 5..13
    BY <2>2, <2>3, <2>4, <2>5
  <2>7. 5 \notin S /\ 6 \notin S /\ 7 \notin S
    BY <2>1, <2>6
  <2>8. \A i \in S : i \in 8..13
    BY <2>6, <2>7
  <2>9. 8 \notin S /\ 9 \notin S /\ 10 \notin S
    BY <2>1, <2>8
  <2>10. \A i \in S : i \in 11..13
    BY <2>8, <2>9
  <2>11. 11 \notin S /\ 12 \notin S /\ 13 \notin S
    BY <2>1, <2>10
  <2>12. PICK i \in S : TRUE
    OBVIOUS
  <2>13. i \in 11..13 /\ i # 11 /\ i # 12 /\ i # 13
    BY <2>10, <2>11, <2>12
  <2> QED
    BY <2>13
<1> QED
  BY <1>1 DEF Min

(* The table: what its routes give, and that those of single entities come *)
(* before the open ones.                                                   *)
LEMMA TableOfRoutes ==
  /\ DOMAIN LabelRoutes = 1..13
  /\ \A i \in 1..13 :
        /\ LabelRoutes[i].image \in {U24, U26}
        /\ IsFiniteSet(LabelRoutes[i].labels)
        /\ Open(LabelRoutes[i]) <=> i > 10
<1>1. DOMAIN LabelRoutes = 1..13
  BY DEF LabelRoutes
<1>2. \A i \in 1..13 : LabelRoutes[i].image \in {U24, U26}
  BY DEF LabelRoutes, Route
<1>3. \A i \in 1..13 : Open(LabelRoutes[i]) <=> i > 10
  BY SMTT(60) DEF LabelRoutes, Route, Open
<1> DEFINE More == {{}, {"rva23", "xlarge"}, {"rva23"}, {"rvv"}, {"ur"}}
<1>4. \A i \in 1..13 :
         \/ LabelRoutes[i].labels = {U24} \union {}
         \/ LabelRoutes[i].labels = {U24} \union {"rva23", "xlarge"}
         \/ LabelRoutes[i].labels = {U24} \union {"rva23"}
         \/ LabelRoutes[i].labels = {U24} \union {"rvv"}
         \/ LabelRoutes[i].labels = {U24} \union {"ur"}
         \/ LabelRoutes[i].labels = {U26} \union {}
  BY SMTT(60) DEF LabelRoutes, Route
<1>5. \A u : \A x \in More : IsFiniteSet({u} \union x)
  <2>1. IsFiniteSet({}) /\ IsFiniteSet({"rva23"}) /\ IsFiniteSet({"rvv"})
        /\ IsFiniteSet({"ur"}) /\ IsFiniteSet({"xlarge"}) /\ \A u : IsFiniteSet({u})
    BY FS_EmptySet, FS_Singleton
  <2>2. IsFiniteSet({"rva23"} \union {"xlarge"})
    BY <2>1, FS_Union
  <2>3. {"rva23", "xlarge"} = {"rva23"} \union {"xlarge"}
    OBVIOUS
  <2>4. \A x \in More : IsFiniteSet(x)
    BY <2>1, <2>2, <2>3
  <2> QED
    BY <2>1, <2>4, FS_Union
<1>6. \A i \in 1..13 : IsFiniteSet(LabelRoutes[i].labels)
  BY <1>4, <1>5
<1> QED BY <1>1, <1>2, <1>3, <1>6

(* A list of labels fits a route exactly when it has no label twice and    *)
(* its set is the route's.                                                 *)
LEMMA FitsMeans ==
  ASSUME NEW labels \in Seq(STRING), NEW set, IsFiniteSet(set)
  PROVE  (Cardinality(set) = Len(labels) /\ set \subseteq Range(labels))
            <=> (set = Range(labels) /\ Len(labels) = Cardinality(Range(labels)))
<1> DEFINE R == Range(labels)
<1>1. Len(labels) \in Nat /\ DOMAIN labels = 1..Len(labels)
  OBVIOUS
<1>2. IsFiniteSet(1..Len(labels)) /\ Cardinality(1..Len(labels)) = Len(labels)
  BY <1>1, FS_Interval, SMTT(60)
<1>3. labels \in Surjection(1..Len(labels), R)
  BY <1>1 DEF Surjection, Range
<1>4. IsFiniteSet(R) /\ Cardinality(R) <= Len(labels)
  BY <1>2, <1>3, FS_Surjection
<1>5. Cardinality(R) \in Nat /\ Cardinality(set) \in Nat
  BY <1>4, FS_CardinalityType
<1>6. set \subseteq R => Cardinality(set) <= Cardinality(R)
                          /\ (Cardinality(R) = Cardinality(set) => R = set)
  BY <1>4, FS_Subset
<1> QED
  BY <1>1, <1>4, <1>5, <1>6

(* The first route that fits a job is a route of its own, if it has one:   *)
(* for every entity and every list of labels.                              *)
LEMMA RouteIsOwn ==
  ASSUME NEW j \in Job, kind[j].labels \in Seq(STRING),
         Matched(kind[j].entity, kind[j].labels)
  PROVE  LET r == matchLabelsToK8s(kind[j].entity, kind[j].labels)
         IN r \in OwnRoutes(j) /\ r.pool \in Pools /\ r.image \in {U24, U26}
<1> DEFINE labels == kind[j].labels
           entity == kind[j].entity
           fitting == Fitting(entity, labels)
           k == Min(fitting)
           r == LabelRoutes[k]
           Same(x) == x.labels = Range(labels) /\ Len(labels) = Cardinality(Range(labels))
<1>1. fitting \in SUBSET (1..13) /\ fitting # {}
  BY TableOfRoutes DEF Fitting, Matched
<1>2. k \in fitting /\ \A i \in fitting : k <= i
  BY <1>1, FirstPlace
<1>3. \A i \in 1..13 : i \in fitting <=>
         (Open(LabelRoutes[i]) \/ entity \in LabelRoutes[i].entities) /\ Same(LabelRoutes[i])
  <2> TAKE i \in 1..13
  <2>1. IsFiniteSet(LabelRoutes[i].labels)
    BY TableOfRoutes
  <2>2. Same(LabelRoutes[i]) <=> /\ Cardinality(LabelRoutes[i].labels) = Len(labels)
                                 /\ LabelRoutes[i].labels \subseteq Range(labels)
    BY <2>1, FitsMeans
  <2>3. i \in DOMAIN LabelRoutes
    BY TableOfRoutes
  <2> QED
    BY <2>2, <2>3 DEF Fitting, Fits
<1>4. k \in 1..13 /\ r \in Range(LabelRoutes)
  BY <1>1, <1>2, TableOfRoutes DEF Range
<1>5. Same(r) /\ (Open(r) \/ entity \in r.entities)
  BY <1>2, <1>3, <1>4
<1> DEFINE same == {x \in Range(LabelRoutes) : Same(x)}
           own  == {x \in same : entity \in x.entities}
<1>6. OwnRoutes(j) = IF own # {} THEN own ELSE {x \in same : Open(x)}
  BY DEF OwnRoutes
<1>7. r \in same
  BY <1>4, <1>5
<1>8. ASSUME own = {} PROVE r \in OwnRoutes(j)
  <2>1. r \notin own
    BY <1>8
  <2>2. Open(r)
    BY <2>1, <1>5, <1>7
  <2> QED
    BY <1>6, <1>7, <1>8, <2>2
<1>9. ASSUME own # {} PROVE r \in OwnRoutes(j)
  <2>1. PICK x \in own : TRUE
    BY <1>9
  <2>2. x \in Range(LabelRoutes) /\ Same(x) /\ entity \in x.entities
    BY <2>1
  <2>3. PICK i \in 1..13 : x = LabelRoutes[i]
    BY <2>2, TableOfRoutes DEF Range
  <2>4. i \in fitting /\ ~Open(LabelRoutes[i])
    BY <2>2, <2>3, <1>3 DEF Open
  <2>5. i <= 10 /\ k <= i
    BY <2>3, <2>4, <1>2, TableOfRoutes
  <2>6. ~Open(r)
    BY <2>3, <2>5, <1>4, TableOfRoutes
  <2>7. r \in own
    BY <2>6, <1>5, <1>7
  <2> QED
    BY <2>7, <1>6, <1>9
<1>10. r.pool \in Pools /\ r.image \in {U24, U26}
  BY <1>4, TableOfRoutes DEF Pools
<1> QED
  BY <1>8, <1>9, <1>10 DEF matchLabelsToK8s

-----------------------------------------------------------------------------
(* The verdict.                                                            *)

Served(e, m)   == Verdict(e, m) = "served"
Proxied(e, m)  == Verdict(e, m) = "proxied_to_staging"
IsStored(e, j) == jobs[e][j].status # "absent"

(* What a verdict says about its message.                                  *)
LEMMA VerdictMeans ==
  ASSUME NEW e \in Env, NEW m \in Messages
  PROVE  /\ Verdict(e, m) \in Outcomes \union {"bad_request", "served"}
         /\ Served(e, m) \/ Proxied(e, m) => m.event = "workflow_job" /\ ~Banned(m)
         /\ Served(e, m) => /\ m.action \in JobActions
                            /\ Matched(Entity(m), Labels(m))
                            /\ m.action = "queued" => m.lacks = "nothing" /\ NewJob(m)
         /\ Served("prod", m) => Entity(m) \notin StagingEntities
         /\ Proxied(e, m) => e = "prod" /\ Entity(m) \in StagingEntities
         /\ NewJob(m) => (Served(e, m) <=> ~Proxied(e, m))
         /\ Verdict(e, m) \notin {"job_stored", "job_already_exists",
                                  "job_marked_running", "job_marked_completed"}
         /\ NewJob(m) => Verdict(e, m) \in {"served", "proxied_to_staging"}
<1>1. m \in Message
  BY WebhookAssumption
<1>2. m.lacks \in {"nothing", "identity", "job", "url"}
  BY <1>1 DEF Message
<1>3. "prod" \in Env
  BY DEF Env
<1> QED
  BY <1>1, <1>2, <1>3 DEF Verdict, Served, Proxied, NewJob, shouldProxyToStaging, Outcomes,
       KnownEvents, JobActions

(* A verdict never changes: it depends on the message and its job alone.   *)
LEMMA Rigid ==
  ASSUME kind' = kind
  PROVE  /\ \A e, m : (Served(e, m)' <=> Served(e, m)) /\ (Proxied(e, m)' <=> Proxied(e, m))
                     /\ Verdict(e, m)' = Verdict(e, m)
         /\ \A m : NewJob(m)' <=> NewJob(m)
         /\ \A m : Entity(m)' = Entity(m) /\ Labels(m)' = Labels(m)
         /\ \A j : Home(j)' = Home(j)
BY DEF Served, Proxied, Verdict, NewJob, Banned, shouldProxyToStaging, Entity, Labels, Home

-----------------------------------------------------------------------------
(* The tables.                                                             *)

TablesType ==
  /\ jobs \in [Env -> [Job -> Row]]
  /\ place \in [Env -> [Job -> (Pools \X {U24, U26}) \union {Null}]]

TableOK ==
  \A e \in Env, j \in Job : IsStored(e, j) =>
     /\ e = Home(j)
     /\ \E d \in Delivery : msg[d] \in Messages /\ msg[d].job = j /\ NewJob(msg[d])
     /\ place[e][j] \in {<<r.pool, r.image>> : r \in OwnRoutes(j)}

Grows == \A e \in Env, j \in Job : IsStored(e, j) => IsStored(e, j)'

LEMMA RowOperators ==
  ASSUME NEW row \in Row, NEW runner \in RunnerName
  PROVE  /\ AddJobRow(row) \in Row /\ AddJobRow(row).status # "absent"
         /\ MarkRunningRow(row, runner) \in Row /\ MarkCompletedRow(row, runner) \in Row
         /\ MarkRunningRow(row, runner).status = "absent" <=> row.status = "absent"
         /\ MarkCompletedRow(row, runner).status = "absent" <=> row.status = "absent"
         /\ row.status = "absent" => /\ MarkRunningRow(row, runner) = row
                                     /\ MarkCompletedRow(row, runner) = row
BY DEF Row, AddJobRow, PendingRow, MarkRunningRow, MarkCompletedRow, Coalesce, ActiveStatus,
     TerminalStatus, Reason, RunnerName

LEMMA HomeOf ==
  ASSUME NEW h \in Handler, Msg(h) \in Messages, Served(h[1], Msg(h)),
         h[1] = "staging" => Proxied("prod", Msg(h))
  PROVE  h[1] = Home(Msg(h).job) /\ h[1] \in Env /\ h[2] \in Delivery /\ Msg(h).job \in Job
<1>1. h[1] \in Env /\ h[2] \in Delivery
  BY DEF Handler
<1>2. Msg(h).job \in Job
  BY WebhookAssumption DEF Message
<1>3. "prod" \in Env
  BY DEF Env
<1> QED
  BY <1>1, <1>2, <1>3, VerdictMeans DEF Home, Entity, Env

(* The two kinds of statement, whether or not their answer arrives.        *)
LEMMA InsertedOK ==
  ASSUME TypeOK, TableOK, UNCHANGED <<kind, msg>>,
         NEW h \in Handler, Msg(h) \in Messages, Served(h[1], Msg(h)),
         h[1] = "staging" => Proxied("prod", Msg(h)),
         Msg(h).action = "queued", Inserted(h)
  PROVE  /\ TablesType' /\ TableOK' /\ Grows
         /\ jobs'[h[1]][Msg(h).job].status # "absent"
<1> DEFINE e == h[1]
           m == Msg(h)
           j == m.job
           r == matchLabelsToK8s(Entity(m), Labels(m))
<1>1. e = Home(j) /\ e \in Env /\ h[2] \in Delivery /\ j \in Job
  BY HomeOf
<1>2. Matched(kind[j].entity, kind[j].labels) /\ NewJob(m)
  BY <1>1, VerdictMeans DEF Entity, Labels
<1>3. kind[j] \in JobKind
  BY <1>1, WebhookAssumption DEF TypeOK
<1>4. r \in OwnRoutes(j) /\ r.pool \in Pools /\ r.image \in {U24, U26}
  BY <1>1, <1>2, <1>3, RouteIsOwn DEF JobKind, Entity, Labels
<1>5. jobs \in [Env -> [Job -> Row]] /\ jobs[e][j] \in Row
  BY <1>1 DEF TypeOK
<1>6. /\ jobs' = [jobs EXCEPT ![e][j] = AddJobRow(@)]
      /\ place' = IF IsStored(e, j) THEN place ELSE [place EXCEPT ![e][j] = <<r.pool, r.image>>]
  BY DEF Inserted, IsStored
<1>7. AddJobRow(jobs[e][j]) \in Row /\ AddJobRow(jobs[e][j]).status # "absent"
  BY <1>5, RowOperators DEF RunnerName
<1>8. TablesType'
  BY <1>1, <1>4, <1>5, <1>6, <1>7 DEF TablesType, TypeOK
<1>9. Grows /\ jobs'[e][j].status # "absent"
  BY <1>1, <1>5, <1>6, <1>7 DEF Grows, IsStored
<1>10. TableOK'
  <2> SUFFICES ASSUME NEW f \in Env, NEW i \in Job, IsStored(f, i)'
               PROVE  /\ f = Home(i)
                      /\ \E d \in Delivery : msg[d] \in Messages /\ msg[d].job = i /\ NewJob(msg[d])
                      /\ place'[f][i] \in {<<x.pool, x.image>> : x \in OwnRoutes(i)}
    BY DEF TableOK, Home, NewJob, OwnRoutes, Banned, Entity, Labels
  <2>1. CASE f = e /\ i = j
    <3>1. msg[h[2]] \in Messages /\ msg[h[2]].job = i /\ NewJob(msg[h[2]])
      BY <2>1, <1>2 DEF Msg
    <3>2. CASE IsStored(e, j)
      BY <2>1, <3>2, <1>6 DEF TableOK
    <3>3. CASE ~IsStored(e, j)
      <4>1. place'[e][j] = <<r.pool, r.image>>
        BY <3>3, <1>1, <1>6 DEF TypeOK
      <4> QED
        BY <2>1, <3>1, <4>1, <1>1, <1>4
    <3> QED
      BY <3>2, <3>3
  <2>2. CASE ~(f = e /\ i = j)
    <3>1. jobs'[f][i] = jobs[f][i]
      BY <2>2, <1>1, <1>5, <1>6
    <3>2. place'[f][i] = place[f][i]
      BY <2>2, <1>1, <1>6 DEF TypeOK
    <3>3. IsStored(f, i)
      BY <3>1 DEF IsStored
    <3> QED
      BY <3>2, <3>3 DEF TableOK
  <2> QED
    BY <2>1, <2>2
<1> QED
  BY <1>8, <1>9, <1>10

LEMMA UpdatedOK ==
  ASSUME TypeOK, TableOK, UNCHANGED <<kind, msg>>,
         NEW h \in Handler, Msg(h) \in Messages, Updated(h)
  PROVE  TablesType' /\ TableOK' /\ Grows
<1> DEFINE e == h[1]
           m == Msg(h)
           j == m.job
<1>1. e \in Env /\ j \in Job /\ m.runner \in RunnerName
  BY WebhookAssumption DEF Handler, Message
<1>2. jobs \in [Env -> [Job -> Row]] /\ jobs[e][j] \in Row
  BY <1>1 DEF TypeOK
<1>3. jobs' = [jobs EXCEPT ![e][j] = Marked(@, m)] /\ place' = place
  BY DEF Updated
<1>4. Marked(jobs[e][j], m) \in Row
      /\ (Marked(jobs[e][j], m).status = "absent" <=> jobs[e][j].status = "absent")
  BY <1>1, <1>2, RowOperators DEF Marked
<1>5. \A f \in Env, i \in Job : jobs'[f][i] \in Row /\ (IsStored(f, i)' <=> IsStored(f, i))
  BY <1>1, <1>2, <1>3, <1>4 DEF IsStored
<1>6. TablesType' /\ Grows
  BY <1>1, <1>2, <1>3, <1>4, <1>5 DEF TablesType, TypeOK, Grows
<1>7. TableOK'
  BY <1>3, <1>5 DEF TableOK, Home, NewJob, OwnRoutes, Banned, Entity, Labels
<1> QED
  BY <1>6, <1>7

-----------------------------------------------------------------------------
(* The handlers.                                                           *)

InTable == {"job_stored", "job_already_exists", "job_marked_running", "job_marked_completed"}

Tells(h, o) == (req[h].pc = "log" /\ req[h].outcome = o) \/ o \in Range(log[h])

(* Where a handler is, and what it has done by then.                       *)
Stage(h) ==
  /\ req[h].code # 0 => req[h].pc = "over"
  /\ req[h].pc \in {"none", "write", "lookup", "log"} => log[h] = <<>>
  /\ req[h].pc # "none" => Msg(h) \in Messages
  /\ req[h].pc \in {"write", "lookup"} => Served(h[1], Msg(h))
  /\ req[h].pc = "lookup" => Msg(h).action # "queued"
  /\ req[h].pc = "log" => (req[h].outcome = "proxied_to_staging" <=> Proxied(h[1], Msg(h)))
  /\ req[h].pc \in {"forward", "wait"} => Proxied(h[1], Msg(h))

(* What it has promised about the table.                                   *)
Promises(h) ==
  /\ (req[h].pc = "log" \/ req[h].code = 200) /\ NewJob(Msg(h)) /\ Served(h[1], Msg(h)) =>
        IsStored(h[1], Msg(h).job)
  /\ \A o \in InTable : Tells(h, o) => Msg(h) \in Messages /\ IsStored(h[1], Msg(h).job)

(* A handler of staging and the handler of prod that forwarded to it.      *)
Linked(h) ==
  /\ h[1] = "staging" /\ req[h].pc # "none" =>
        Proxied("prod", Msg(h)) /\ req[Parent(h)].pc \in {"wait", "over"}
  /\ h[1] = "prod" /\ req[h].code = 200 /\ Proxied("prod", Msg(h)) => req[Child(h)].code = 200

(* Its row, as long as writing one does not fail.                          *)
Recorded(h) == "log" \notin Faults =>
  /\ h[1] = "prod" /\ (req[h].pc \in {"forward", "wait"} \/ req[h].code = 200) => Len(log[h]) = 1
  /\ h[1] = "staging" /\ req[h].code = 200 =>
        Len(log[h]) = 1 \/ (req[Parent(h)].pc = "over" /\ req[Parent(h)].code # 200)

HandlerOK(h) == Stage(h) /\ Promises(h) /\ Linked(h) /\ Recorded(h)
HandlersOK == \A h \in Handler : HandlerOK(h)

(* Only one handler has stored a job.                                      *)
StoredOnce ==
  \A h, k \in Handler :
     Tells(h, "job_stored") /\ Tells(k, "job_stored") /\ h[1] = k[1]
        /\ Msg(h).job = Msg(k).job => h = k

Inv == TypeOK /\ TableOK /\ HandlersOK /\ StoredOnce

LEMMA Relatives ==
  ASSUME NEW h \in Handler
  PROVE  /\ Parent(h) \in Handler /\ Child(h) \in Handler
         /\ h[1] \in {"prod", "staging"} /\ h[2] \in Delivery /\ h[3] \in Attempt
         /\ h[1] = "prod" => Parent(h) = h /\ Parent(Child(h)) = h
         /\ h[1] = "staging" => Child(h) = h /\ Child(Parent(h)) = h
         /\ Parent(h)[1] = "prod" /\ Child(h)[1] = "staging"
         /\ Parent(h)[2] = h[2] /\ Child(h)[2] = h[2]
BY DEF Handler, Env, Parent, Child

(* Handlers that do not take part in a step keep their claims.  A holds    *)
(* those that do.                                                          *)
LEMMA Frame ==
  ASSUME HandlersOK, kind' = kind, Grows,
         NEW A \in SUBSET Handler,
         \A k \in Handler \ A : req'[k] = req[k] /\ log'[k] = log[k],
         \A k \in Handler : req[k].pc # "none" => msg'[k[2]] = msg[k[2]],
         \A k \in A : req[k].pc # "over" /\ (req[k].pc = "wait" => req'[k].pc \in {"wait", "over"}),
         NEW k \in Handler \ A
  PROVE  HandlerOK(k)'
<1>1. HandlerOK(k)
  BY DEF HandlersOK
<1>2. req'[k] = req[k] /\ log'[k] = log[k]
  OBVIOUS
<1>3. \A x \in Handler : req[x].code # 0 => x \notin A /\ req'[x] = req[x]
  BY DEF HandlersOK, HandlerOK, Stage
<1>4. Stage(k)'
  <2>1. CASE req[k].pc = "none"
    BY <1>1, <1>2, <2>1 DEF HandlerOK, Stage
  <2>2. CASE req[k].pc # "none"
    <3>1. msg'[k[2]] = msg[k[2]]
      BY <2>2
    <3> QED
      BY <1>1, <1>2, <3>1, Rigid DEF HandlerOK, Stage, Msg
  <2> QED
    BY <2>1, <2>2
<1>5. Promises(k)'
  <2>1. CASE req[k].pc = "none"
    <3>1. log'[k] = <<>> /\ req'[k].code = 0 /\ req'[k].pc = "none"
      BY <1>1, <1>2, <2>1 DEF HandlerOK, Stage
    <3>2. Range(log[k])' = {}
      BY <3>1 DEF Range
    <3> QED
      BY <3>1, <3>2 DEF Promises, Tells
  <2>2. CASE req[k].pc # "none"
    <3>1. msg'[k[2]] = msg[k[2]] /\ msg[k[2]] \in Messages /\ k[1] \in Env
      BY <2>2, <1>1 DEF HandlerOK, Stage, Msg, Handler
    <3>2. msg[k[2]].job \in Job
      BY <3>1, WebhookAssumption DEF Message
    <3>3. IsStored(k[1], msg[k[2]].job) => IsStored(k[1], msg[k[2]].job)'
      BY <3>1, <3>2 DEF Grows
    <3>4. jobs[k[1]][msg[k[2]].job].status # "absent" => jobs'[k[1]][msg[k[2]].job].status # "absent"
      BY <3>1, <3>2 DEF Grows, IsStored
    <3>5. \A o : Tells(k, o)' <=> Tells(k, o)
      BY <1>2 DEF Tells, Range
    <3> QED
      BY <1>1, <1>2, <3>1, <3>4, <3>5, Rigid DEF HandlerOK, Promises, Msg, IsStored
  <2> QED
    BY <2>1, <2>2
<1>6. Linked(k)'
  <2>1. req[k].pc # "none" => msg'[k[2]] = msg[k[2]]
    OBVIOUS
  <2>2. req[Parent(k)].pc \in {"wait", "over"} => req'[Parent(k)].pc \in {"wait", "over"}
    BY Relatives
  <2>3. req[Child(k)].code = 200 => req'[Child(k)].code = 200
    BY <1>3, Relatives
  <2>4. req[k].code = 200 => req[k].pc # "none"
    BY <1>1 DEF HandlerOK, Stage
  <2> QED
    BY <1>1, <1>2, <2>1, <2>2, <2>3, <2>4, Rigid DEF HandlerOK, Linked, Msg, Parent, Child
<1>7. Recorded(k)'
  <2>1. req[Parent(k)].pc = "over" => req'[Parent(k)] = req[Parent(k)]
    BY Relatives
  <2> QED
    BY <1>1, <1>2, <2>1 DEF HandlerOK, Recorded, Parent
<1> QED
  BY <1>4, <1>5, <1>6, <1>7 DEF HandlerOK

LEMMA TellersHaveMessages ==
  ASSUME Inv, \A k \in Handler : req[k].pc # "none" => msg'[k[2]] = msg[k[2]],
         NEW k \in Handler, Tells(k, "job_stored")
  PROVE  /\ msg'[k[2]] = msg[k[2]]
         /\ IsStored(k[1], Msg(k).job)
<1>1. req[k].pc = "none" => log[k] = <<>>
  BY DEF Inv, HandlersOK, HandlerOK, Stage
<1>2. req[k].pc # "none"
  BY <1>1 DEF Tells, Range
<1>3. IsStored(k[1], Msg(k).job)
  BY DEF Inv, HandlersOK, HandlerOK, Promises, InTable
<1> QED
  BY <1>2, <1>3

(* What a step has to show for the whole invariant.                        *)
LEMMA Preserved ==
  ASSUME Inv, kind' = kind, Grows, TypeOK', TableOK',
         NEW A \in SUBSET Handler,
         \A k \in Handler \ A : req'[k] = req[k] /\ log'[k] = log[k],
         \A k \in Handler : req[k].pc # "none" => msg'[k[2]] = msg[k[2]],
         \A k \in A : req[k].pc # "over" /\ (req[k].pc = "wait" => req'[k].pc \in {"wait", "over"}),
         \A k \in A : HandlerOK(k)',
         \A k \in A : Tells(k, "job_stored")' => Tells(k, "job_stored")
  PROVE  Inv'
<1>1. HandlersOK'
  <2> SUFFICES ASSUME NEW k \in Handler PROVE HandlerOK(k)'
    BY DEF HandlersOK
  <2> QED
    BY Frame DEF Inv
<1>2. StoredOnce'
  <2>1. \A k \in Handler : Tells(k, "job_stored")' => Tells(k, "job_stored")
    BY DEF Tells, Range
  <2>2. \A k \in Handler : Tells(k, "job_stored") => msg'[k[2]] = msg[k[2]]
    BY TellersHaveMessages
  <2> QED
    BY <2>1, <2>2 DEF Inv, StoredOnce, Msg
<1> QED
  BY <1>1, <1>2 DEF Inv

(* The same for a step of one handler, which may store a job if it was not *)
(* there.                                                                  *)
LEMMA PreservedBut ==
  ASSUME Inv, kind' = kind, Grows, TypeOK', TableOK',
         NEW h \in Handler,
         \A k \in Handler \ {h} : req'[k] = req[k] /\ log'[k] = log[k],
         \A k \in Handler : req[k].pc # "none" => msg'[k[2]] = msg[k[2]],
         req[h].pc # "over",
         req[h].pc = "wait" => req'[h].pc \in {"wait", "over"},
         HandlerOK(h)',
         Tells(h, "job_stored")' =>
           \/ Tells(h, "job_stored")
           \/ msg'[h[2]] = msg[h[2]] /\ ~IsStored(h[1], Msg(h).job)
  PROVE  Inv'
<1>1. HandlersOK'
  <2> DEFINE A == {h}
  <2> SUFFICES ASSUME NEW k \in Handler PROVE HandlerOK(k)'
    BY DEF HandlersOK
  <2>1. CASE k = h
    BY <2>1
  <2>2. CASE k # h
    <3>1. A \in SUBSET Handler /\ k \in Handler \ A
      BY <2>2
    <3>2. \A x \in Handler \ A : req'[x] = req[x] /\ log'[x] = log[x]
      OBVIOUS
    <3>3. \A x \in A : req[x].pc # "over" /\ (req[x].pc = "wait" => req'[x].pc \in {"wait", "over"})
      OBVIOUS
    <3> HIDE DEF A
    <3> QED
      BY <3>1, <3>2, <3>3, Frame DEF Inv
  <2> QED
    BY <2>1, <2>2
<1>2. StoredOnce'
  <2>1. \A k \in Handler \ {h} : Tells(k, "job_stored")' => Tells(k, "job_stored")
    BY DEF Tells, Range
  <2>2. \A k \in Handler : Tells(k, "job_stored") =>
           msg'[k[2]] = msg[k[2]] /\ IsStored(k[1], Msg(k).job)
    BY TellersHaveMessages
  <2> SUFFICES ASSUME NEW k \in Handler, NEW x \in Handler,
                      Tells(k, "job_stored")', Tells(x, "job_stored")', k[1] = x[1],
                      msg'[k[2]].job = msg'[x[2]].job, k # x
               PROVE  FALSE
    BY DEF StoredOnce, Msg
  <2>3. CASE Tells(k, "job_stored") /\ Tells(x, "job_stored")
    BY <2>2, <2>3 DEF Inv, StoredOnce, Msg
  <2>4. CASE k = h /\ ~Tells(h, "job_stored")
    <3>1. msg'[h[2]] = msg[h[2]] /\ ~IsStored(h[1], Msg(h).job) /\ Tells(x, "job_stored")
      BY <2>1, <2>4
    <3> QED
      BY <3>1, <2>2, <2>4 DEF Msg
  <2>5. CASE x = h /\ ~Tells(h, "job_stored")
    <3>1. msg'[h[2]] = msg[h[2]] /\ ~IsStored(h[1], Msg(h).job) /\ Tells(k, "job_stored")
      BY <2>1, <2>5
    <3> QED
      BY <3>1, <2>2, <2>5 DEF Msg
  <2> QED
    BY <2>1, <2>3, <2>4, <2>5
<1> QED
  BY <1>1, <1>2 DEF Inv

LEMMA InitInv == Init => Inv
<1> SUFFICES ASSUME Init PROVE Inv
  OBVIOUS
<1>1. \A h \in Handler : req[h] = Unset /\ log[h] = <<>>
  BY DEF Init
<1>2. \A h \in Handler : \A o : ~Tells(h, o)
  BY <1>1 DEF Tells, Unset, Range
<1>3. TypeOK
  BY WebhookAssumption
     DEF Init, TypeOK, EmptyTable, AbsentRow, Row, Reason, Unset, State, PCs, Outcomes, Codes
<1>4. TableOK
  BY DEF Init, TableOK, IsStored, EmptyTable, AbsentRow
<1>5. HandlersOK
  BY <1>1, <1>2 DEF HandlersOK, HandlerOK, Stage, Promises, Linked, Recorded, Unset
<1> QED
  BY <1>2, <1>3, <1>4, <1>5 DEF Inv, StoredOnce

(* A handler that has just begun.                                          *)
LEMMA OpeningMeans ==
  ASSUME NEW e \in Env, NEW m \in Messages
  PROVE  LET r == Opening(Verdict(e, m))
         IN /\ r \in State /\ r.code \in {0, 400}
            /\ r.pc \in {"write", "log", "over"}
            /\ r.code # 0 => r.pc = "over"
            /\ r.pc = "write" => Served(e, m)
            /\ r.pc = "log" => ~Served(e, m) /\ r.outcome = Verdict(e, m)
<1>1. Verdict(e, m) \in Outcomes \union {"bad_request", "served"}
  BY VerdictMeans
<1>2. CASE Verdict(e, m) = "bad_request"
  BY <1>2 DEF Opening, Unset, State, PCs, Codes, Outcomes
<1>3. CASE Verdict(e, m) = "served"
  BY <1>3 DEF Opening, Unset, State, PCs, Codes, Outcomes, Served
<1>4. CASE Verdict(e, m) \notin {"bad_request", "served"}
  BY <1>1, <1>4 DEF Opening, Unset, State, PCs, Codes, Served
<1> QED
  BY <1>2, <1>3, <1>4

LEMMA Opened ==
  ASSUME Inv, kind' = kind, log' = log,
         NEW h \in Handler, req[h].pc = "none",
         NEW m \in Messages, msg'[h[2]] = m,
         req'[h] = Opening(Verdict(h[1], m)),
         h[1] = "staging" => Proxied("prod", m) /\ req'[Parent(h)].pc = "wait"
  PROVE  HandlerOK(h)' /\ ~Tells(h, "job_stored")'
<1> DEFINE r == Opening(Verdict(h[1], m))
<1>1. h[1] \in Env
  BY Relatives DEF Env
<1>2. /\ r \in State /\ r.code \in {0, 400} /\ r.pc \in {"write", "log", "over"}
      /\ r.code # 0 => r.pc = "over"
      /\ r.pc = "write" => Served(h[1], m)
      /\ r.pc = "log" => ~Served(h[1], m) /\ r.outcome = Verdict(h[1], m)
  BY <1>1, OpeningMeans
<1>3. log'[h] = <<>> /\ Range(log[h])' = {}
  BY DEF Inv, HandlersOK, HandlerOK, Stage, Range
<1>4. Msg(h)' = m
  BY DEF Msg
<1>5. Verdict(h[1], m) \notin InTable
  BY <1>1, VerdictMeans DEF InTable
<1> HIDE DEF r
<1>6. req'[h] = r
  BY DEF r
<1>7. \A o \in InTable : ~Tells(h, o)'
  BY <1>2, <1>3, <1>5, <1>6 DEF Tells
<1>8. Stage(h)'
  BY <1>2, <1>3, <1>4, <1>6, Rigid DEF Stage, Proxied
<1>9. Promises(h)'
  BY <1>2, <1>4, <1>6, <1>7, Rigid DEF Promises
<1>10. Linked(h)'
  BY <1>2, <1>4, <1>6, Rigid, Relatives DEF Linked, Parent
<1>11. Recorded(h)'
  BY <1>2, <1>6 DEF Recorded
<1> QED
  BY <1>7, <1>8, <1>9, <1>10, <1>11 DEF HandlerOK, InTable

LEMMA DeliverInv ==
  ASSUME Inv, NEW d \in Delivery, NEW m \in Messages, Deliver(d, m)
  PROVE  Inv'
<1> DEFINE h == <<"prod", d, 1>>
<1>1. h \in Handler /\ h[1] = "prod" /\ h[2] = d
  BY WebhookAssumption DEF Handler, Env, Attempt
<1>2. req[h].pc = "none"
  BY <1>1, WebhookAssumption DEF Inv, HandlersOK, HandlerOK, Stage, Deliver, Msg
<1>3. /\ req' = [req EXCEPT ![h] = Opening(Verdict("prod", m))]
      /\ msg' = [msg EXCEPT ![d] = m] /\ msg[d] = Null
      /\ UNCHANGED <<kind, jobs, place, log, faults>>
  BY DEF Deliver, tables
<1>4. Opening(Verdict("prod", m)) \in State
  BY OpeningMeans DEF Env
<1>5. TypeOK'
  BY <1>1, <1>3, <1>4 DEF Inv, TypeOK
<1>6. TableOK'
  <2>1. \A c \in Delivery : msg[c] \in Messages => msg'[c] = msg[c]
    BY <1>3, WebhookAssumption DEF Inv, TypeOK
  <2>2. \A x : NewJob(x)' <=> NewJob(x)
    BY <1>3, Rigid
  <2> QED
    BY <1>3, <2>1, <2>2 DEF Inv, TableOK, IsStored, Home, OwnRoutes
<1>7. Grows
  BY <1>3 DEF Grows, IsStored
<1>8. req'[h] = Opening(Verdict(h[1], m)) /\ msg'[h[2]] = m
  BY <1>1, <1>3 DEF Inv, TypeOK
<1>9. HandlerOK(h)' /\ ~Tells(h, "job_stored")'
  BY <1>1, <1>2, <1>3, <1>8, Opened
<1>10. \A k \in Handler \ {h} : req'[k] = req[k] /\ log'[k] = log[k]
  BY <1>3 DEF Inv, TypeOK
<1>11. \A k \in Handler : req[k].pc # "none" => msg'[k[2]] = msg[k[2]]
  BY <1>3, WebhookAssumption DEF Inv, HandlersOK, HandlerOK, Stage, Msg, TypeOK
<1> QED
  BY <1>1, <1>2, <1>3, <1>5, <1>6, <1>7, <1>9, <1>10, <1>11, PreservedBut

LEMMA TablesKept ==
  ASSUME TableOK, UNCHANGED <<kind, msg, jobs, place>>
  PROVE  TableOK' /\ Grows
<1>1. \A x : NewJob(x)' <=> NewJob(x)
  BY Rigid
<1> QED
  BY <1>1 DEF TableOK, IsStored, Home, OwnRoutes, Grows

LEMMA RedeliverInv ==
  ASSUME Inv, NEW d \in Delivery, NEW n \in Attempt \ {1}, Redeliver(d, n)
  PROVE  Inv'
<1> DEFINE h == <<"prod", d, n>>
           p == <<"prod", d, n - 1>>
           m == msg[d]
<1>1. h \in Handler /\ p \in Handler /\ h[1] = "prod" /\ h[2] = d /\ p[2] = d
  BY WebhookAssumption DEF Handler, Env, Attempt
<1>2. req[h].pc = "none" /\ req[p].pc # "none"
  BY DEF Redeliver
<1>3. m \in Messages
  BY <1>1, <1>2 DEF Inv, HandlersOK, HandlerOK, Stage, Msg
<1>4. /\ req' = [req EXCEPT ![h] = Opening(Verdict("prod", m))]
      /\ UNCHANGED <<kind, msg, jobs, place, log, faults>>
  BY DEF Redeliver, tables
<1>5. Opening(Verdict("prod", m)) \in State
  BY <1>3, OpeningMeans DEF Env
<1>6. TypeOK'
  BY <1>1, <1>4, <1>5 DEF Inv, TypeOK
<1>7. TableOK' /\ Grows
  BY <1>4, TablesKept DEF Inv
<1>8. req'[h] = Opening(Verdict(h[1], m)) /\ msg'[h[2]] = m
  BY <1>1, <1>4 DEF Inv, TypeOK
<1>9. HandlerOK(h)' /\ ~Tells(h, "job_stored")'
  BY <1>1, <1>2, <1>3, <1>4, <1>8, Opened
<1>10. \A k \in Handler \ {h} : req'[k] = req[k] /\ log'[k] = log[k]
  BY <1>4 DEF Inv, TypeOK
<1> QED
  BY <1>1, <1>2, <1>4, <1>6, <1>7, <1>9, <1>10, PreservedBut

LEMMA AnswerMeans ==
  ASSUME TypeOK, NEW h \in Handler, NEW c \in Codes, Answer(h, c)
  PROVE  /\ req' \in [Handler -> State]
         /\ req'[h].pc = "over" /\ req'[h].code = c
         /\ \A k \in Handler \ {h} : req'[k] = req[k]
BY DEF TypeOK, Answer, State, PCs

LEMMA ToLogMeans ==
  ASSUME TypeOK, NEW h \in Handler, NEW o \in Outcomes, ToLog(h, o)
  PROVE  /\ req' \in [Handler -> State]
         /\ req'[h].pc = "log" /\ req'[h].outcome = o /\ req'[h].code = req[h].code
         /\ \A k \in Handler \ {h} : req'[k] = req[k]
BY DEF TypeOK, ToLog, State, PCs

(* A handler that is over without having accepted.                         *)
LEMMA Ended ==
  ASSUME Inv, UNCHANGED <<kind, msg>>, Grows,
         NEW h \in Handler, req[h].pc # "none", log'[h] = log[h],
         req'[h].pc = "over", req'[h].code # 200,
         h[1] = "staging" => req'[Parent(h)].pc \in {"wait", "over"}
  PROVE  HandlerOK(h)' /\ (Tells(h, "job_stored")' => Tells(h, "job_stored"))
<1>1. HandlerOK(h)
  BY DEF Inv, HandlersOK
<1>2. msg'[h[2]] = msg[h[2]] /\ msg[h[2]] \in Messages /\ h[1] \in Env
  BY <1>1, Relatives DEF HandlerOK, Stage, Msg, Env
<1>3. \A o : Tells(h, o)' => Tells(h, o)
  BY DEF Tells, Range
<1>4. msg[h[2]].job \in Job
  BY <1>2, WebhookAssumption DEF Message
<1>5. jobs[h[1]][msg[h[2]].job].status # "absent" => jobs'[h[1]][msg[h[2]].job].status # "absent"
  BY <1>2, <1>4 DEF Grows, IsStored
<1>6. Stage(h)'
  BY <1>2 DEF Stage, Msg
<1>7. Promises(h)'
  BY <1>1, <1>2, <1>3, <1>5 DEF HandlerOK, Promises, Msg, IsStored
<1>8. Linked(h)'
  BY <1>1, <1>2, Rigid DEF HandlerOK, Linked, Msg, Parent
<1>9. Recorded(h)'
  BY DEF Recorded
<1> QED
  BY <1>3, <1>6, <1>7, <1>8, <1>9 DEF HandlerOK

(* A handler that turns to its row.                                        *)
LEMMA Logging ==
  ASSUME Inv, UNCHANGED <<kind, msg, log>>, Grows,
         NEW h \in Handler, req[h].pc \in {"write", "lookup"},
         req'[h].pc = "log", req'[h].outcome # "proxied_to_staging", req'[h].code = req[h].code,
         req'[h].outcome \in InTable \/ NewJob(Msg(h)) =>
           jobs'[h[1]][Msg(h).job].status # "absent",
         \A k \in Handler \ {h} : req'[k] = req[k]
  PROVE  HandlerOK(h)'
<1>1. HandlerOK(h)
  BY DEF Inv, HandlersOK
<1>2. /\ msg'[h[2]] = msg[h[2]] /\ msg[h[2]] \in Messages /\ h[1] \in Env
      /\ Served(h[1], msg[h[2]]) /\ ~Proxied(h[1], msg[h[2]])
      /\ log'[h] = <<>> /\ req'[h].code = 0
  BY <1>1, Relatives DEF HandlerOK, Stage, Msg, Env, Served, Proxied
<1>3. Range(log[h])' = {}
  BY <1>2 DEF Range
<1>4. Stage(h)'
  BY <1>2, Rigid DEF Stage, Msg
<1>5. Promises(h)'
  BY <1>2, <1>3, Rigid DEF Promises, Tells, Msg, IsStored
<1>6. Linked(h)'
  <2>1. h[1] = "staging" => Parent(h) # h /\ Parent(h) \in Handler
    BY Relatives
  <2> QED
    BY <1>1, <1>2, <2>1, Rigid DEF HandlerOK, Linked, Msg, Parent
<1>7. Recorded(h)'
  BY <1>2 DEF Recorded
<1> QED
  BY <1>4, <1>5, <1>6, <1>7 DEF HandlerOK

(* The handler at its statement.                                           *)
LEMMA AtStatement ==
  ASSUME Inv, NEW h \in Handler, req[h].pc \in {"write", "lookup"}
  PROVE  /\ Msg(h) \in Messages /\ Served(h[1], Msg(h)) /\ h[1] \in Env
         /\ h[1] = "staging" => Proxied("prod", Msg(h)) /\ Parent(h) \in Handler \ {h}
                                /\ req[Parent(h)].pc \in {"wait", "over"}
         /\ Msg(h).job \in Job /\ Msg(h).action \in JobActions
         /\ TypeOK /\ TableOK
<1>1. HandlerOK(h) /\ h[1] \in Env
  BY Relatives DEF Inv, HandlersOK, Env
<1>2. Msg(h) \in Messages /\ Served(h[1], Msg(h))
  BY <1>1 DEF HandlerOK, Stage
<1>3. Msg(h).job \in Job
  BY <1>2, WebhookAssumption DEF Message
<1> QED
  BY <1>1, <1>2, <1>3, VerdictMeans, Relatives DEF HandlerOK, Linked, Inv

LEMMA AddJobInv ==
  ASSUME Inv, NEW h \in Handler, AddJob(h)
  PROVE  Inv'
<1> DEFINE j == Msg(h).job
<1>1. req[h].pc = "write" /\ Msg(h).action = "queued" /\ UNCHANGED <<kind, msg, log, faults>>
      /\ Inserted(h)
  BY DEF AddJob, At
<1>2. /\ Msg(h) \in Messages /\ Served(h[1], Msg(h)) /\ h[1] \in Env
      /\ h[1] = "staging" => Proxied("prod", Msg(h))
      /\ TypeOK /\ TableOK
  BY <1>1, AtStatement
<1>3. TablesType' /\ TableOK' /\ Grows /\ jobs'[h[1]][j].status # "absent"
  BY <1>1, <1>2, InsertedOK
<1>4. PICK o \in {"job_stored", "job_already_exists"} :
         ToLog(h, o) /\ (o = "job_stored" => ~IsStored(h[1], j))
  BY DEF AddJob, Stored, IsStored
<1>5. /\ req' \in [Handler -> State]
      /\ req'[h].pc = "log" /\ req'[h].outcome = o /\ req'[h].code = req[h].code
      /\ \A k \in Handler \ {h} : req'[k] = req[k]
  BY <1>2, <1>4, ToLogMeans DEF Outcomes
<1>6. TypeOK'
  BY <1>1, <1>2, <1>3, <1>5 DEF TypeOK, TablesType
<1>7. HandlerOK(h)'
  BY <1>1, <1>3, <1>5, Logging
<1>8. Tells(h, "job_stored")' => Tells(h, "job_stored") \/ ~IsStored(h[1], j)
  BY <1>1, <1>4, <1>5 DEF Tells, Range
<1> QED
  BY <1>1, <1>3, <1>5, <1>6, <1>7, <1>8, PreservedBut

LEMMA MarkJobInv ==
  ASSUME Inv, NEW h \in Handler, MarkJob(h)
  PROVE  Inv'
<1> DEFINE j == Msg(h).job
           m == Msg(h)
<1>1. /\ req[h].pc = "write" /\ m.action \in {"in_progress", "completed"}
      /\ UNCHANGED <<kind, msg, log, faults>> /\ Updated(h)
  BY DEF MarkJob, At
<1>2. /\ m \in Messages /\ Served(h[1], m) /\ h[1] \in Env /\ j \in Job
      /\ h[1] = "staging" => Proxied("prod", m) /\ Parent(h) \in Handler \ {h}
                             /\ req[Parent(h)].pc \in {"wait", "over"}
      /\ TypeOK /\ TableOK
  BY <1>1, AtStatement
<1>3. TablesType' /\ TableOK' /\ Grows
  BY <1>1, <1>2, UpdatedOK
<1>4. ~NewJob(m)
  BY <1>1 DEF NewJob
<1>5. HandlerOK(h)
  BY DEF Inv, HandlersOK
<1>6. CASE jobs' = jobs
  <2>1. req' = [req EXCEPT ![h].pc = "lookup"]
    BY <1>6 DEF MarkJob
  <2>2. /\ req' \in [Handler -> State]
        /\ req'[h].pc = "lookup" /\ req'[h].code = req[h].code
        /\ \A k \in Handler \ {h} : req'[k] = req[k]
    BY <2>1, <1>2 DEF TypeOK, State, PCs
  <2>3. TypeOK'
    BY <1>1, <1>2, <1>3, <2>2 DEF TypeOK, TablesType
  <2>4. req'[h].code = 0 /\ log'[h] = <<>>
    BY <1>1, <1>5, <2>2 DEF HandlerOK, Stage
  <2>5. \A o : ~Tells(h, o)'
    BY <2>2, <2>4 DEF Tells, Range
  <2>6. Stage(h)'
    BY <1>1, <1>2, <2>2, <2>4, Rigid DEF Stage, Msg
  <2>7. Promises(h)' /\ Recorded(h)'
    BY <2>2, <2>4, <2>5 DEF Promises, Recorded
  <2>8. Linked(h)'
    BY <1>1, <1>2, <2>2, <2>4, Rigid DEF Linked, Msg, Parent
  <2>9. HandlerOK(h)'
    BY <2>6, <2>7, <2>8 DEF HandlerOK
  <2> QED
    BY <1>1, <1>3, <2>2, <2>3, <2>5, <2>9, PreservedBut
<1>7. CASE jobs' # jobs
  <2>1. ToLog(h, MarkOutcome(m)) /\ MarkOutcome(m) \in {"job_marked_running", "job_marked_completed"}
    BY <1>7 DEF MarkJob, MarkOutcome
  <2>2. /\ req' \in [Handler -> State]
        /\ req'[h].pc = "log" /\ req'[h].outcome = MarkOutcome(m) /\ req'[h].code = req[h].code
        /\ \A k \in Handler \ {h} : req'[k] = req[k]
    BY <1>2, <2>1, ToLogMeans DEF Outcomes
  <2>3. TypeOK'
    BY <1>1, <1>2, <1>3, <2>2 DEF TypeOK, TablesType
  <2>4. jobs[h[1]][j].status # "absent"
    <3> SUFFICES ASSUME jobs[h[1]][j].status = "absent" PROVE FALSE
      OBVIOUS
    <3>1. m.runner \in RunnerName /\ jobs[h[1]][j] \in Row
      BY <1>2, WebhookAssumption DEF Message, TypeOK
    <3>2. Marked(jobs[h[1]][j], m) = jobs[h[1]][j]
      BY <3>1, RowOperators DEF Marked
    <3>3. jobs' = [jobs EXCEPT ![h[1]][j] = Marked(@, m)]
      BY <1>1 DEF Updated
    <3>4. jobs' = jobs
      BY <1>2, <3>2, <3>3 DEF TypeOK
    <3> QED
      BY <1>7, <3>4
  <2>5. jobs'[h[1]][j].status # "absent"
    BY <1>2, <1>3, <2>4 DEF Grows, IsStored
  <2>6. HandlerOK(h)'
    BY <1>1, <1>3, <2>1, <2>2, <2>5, Logging
  <2>7. Tells(h, "job_stored")' => Tells(h, "job_stored")
    BY <1>1, <2>1, <2>2 DEF Tells, Range
  <2> QED
    BY <1>1, <1>3, <2>2, <2>3, <2>6, <2>7, PreservedBut
<1> QED
  BY <1>6, <1>7

LEMMA LookUpInv ==
  ASSUME Inv, NEW h \in Handler, LookUp(h)
  PROVE  Inv'
<1> DEFINE m == Msg(h)
<1>1. req[h].pc = "lookup" /\ UNCHANGED <<kind, msg, jobs, place, log, faults>>
  BY DEF LookUp, At, tables
<1>2. Served(h[1], m) /\ TypeOK /\ TableOK
  BY <1>1, AtStatement
<1>3. TableOK' /\ Grows
  BY <1>1, <1>2, TablesKept
<1>4. PICK o \in {"job_not_found", "job_marked_running", "job_marked_completed"} :
         ToLog(h, o) /\ (o # "job_not_found" => jobs[h[1]][m.job].status # "absent")
  BY DEF LookUp, MarkOutcome
<1>5. /\ req' \in [Handler -> State]
      /\ req'[h].pc = "log" /\ req'[h].outcome = o /\ req'[h].code = req[h].code
      /\ \A k \in Handler \ {h} : req'[k] = req[k]
  BY <1>2, <1>4, ToLogMeans DEF Outcomes
<1>6. TypeOK'
  BY <1>1, <1>2, <1>5 DEF TypeOK
<1>7. ~NewJob(m)
  BY <1>1 DEF Inv, HandlersOK, HandlerOK, Stage, NewJob
<1>8. HandlerOK(h)'
  BY <1>1, <1>3, <1>4, <1>5, <1>7, Logging DEF InTable
<1>9. Tells(h, "job_stored")' => Tells(h, "job_stored")
  BY <1>1, <1>4, <1>5 DEF Tells, Range
<1> QED
  BY <1>1, <1>3, <1>5, <1>6, <1>8, <1>9, PreservedBut

LEMMA StatementFailsInv ==
  ASSUME Inv, NEW h \in Handler, StatementFails(h)
  PROVE  Inv'
<1>1. UNCHANGED <<kind, msg, log>> /\ faults' \in 0..MaxFaults
  BY WebhookAssumption DEF StatementFails, Fails, Fault, NoFault, Inv, TypeOK
<1>2. TypeOK /\ TableOK
  BY DEF Inv
<1>3. CASE req[h].pc = "write" /\ Answer(h, OnError)
           /\ \/ UNCHANGED tables
              \/ Msg(h).action = "queued" /\ Inserted(h)
              \/ Msg(h).action # "queued" /\ Updated(h)
  <2>1. /\ Msg(h) \in Messages /\ Served(h[1], Msg(h)) /\ h[1] \in Env
        /\ h[1] = "staging" => Proxied("prod", Msg(h)) /\ Parent(h) \in Handler \ {h}
                               /\ req[Parent(h)].pc \in {"wait", "over"}
    BY <1>3, AtStatement
  <2>2. TablesType' /\ TableOK' /\ Grows
    <3>1. CASE UNCHANGED tables
      BY <1>1, <1>2, <3>1, TablesKept DEF tables, TypeOK, TablesType
    <3>2. CASE Msg(h).action = "queued" /\ Inserted(h)
      BY <1>1, <1>2, <2>1, <3>2, InsertedOK
    <3>3. CASE Updated(h)
      BY <1>1, <1>2, <2>1, <3>3, UpdatedOK
    <3> QED
      BY <1>3, <3>1, <3>2, <3>3
  <2>3. /\ req' \in [Handler -> State]
        /\ req'[h].pc = "over" /\ req'[h].code = 500
        /\ \A k \in Handler \ {h} : req'[k] = req[k]
    BY <1>2, <1>3, AnswerMeans DEF OnError, Codes
  <2>4. TypeOK'
    BY <1>1, <1>2, <2>2, <2>3 DEF TypeOK, TablesType
  <2>5. HandlerOK(h)' /\ (Tells(h, "job_stored")' => Tells(h, "job_stored"))
    BY <1>1, <1>3, <2>1, <2>2, <2>3, Ended
  <2> QED
    BY <1>1, <1>3, <2>2, <2>3, <2>4, <2>5, PreservedBut
<1>4. CASE req[h].pc = "lookup" /\ ToLog(h, "job_not_found") /\ UNCHANGED tables
  <2>1. TableOK' /\ Grows
    BY <1>1, <1>2, <1>4, TablesKept DEF tables
  <2>2. /\ req' \in [Handler -> State]
        /\ req'[h].pc = "log" /\ req'[h].outcome = "job_not_found" /\ req'[h].code = req[h].code
        /\ \A k \in Handler \ {h} : req'[k] = req[k]
    BY <1>2, <1>4, ToLogMeans DEF Outcomes
  <2>3. TypeOK'
    BY <1>1, <1>2, <1>4, <2>2 DEF TypeOK, tables
  <2>4. ~NewJob(Msg(h))
    BY <1>4 DEF Inv, HandlersOK, HandlerOK, Stage, NewJob
  <2>5. HandlerOK(h)'
    BY <1>1, <1>4, <2>1, <2>2, <2>4, Logging DEF InTable
  <2>6. Tells(h, "job_stored")' => Tells(h, "job_stored")
    BY <1>1, <2>2 DEF Tells, Range
  <2> QED
    BY <1>1, <1>4, <2>1, <2>2, <2>3, <2>5, <2>6, PreservedBut
<1> QED
  BY <1>3, <1>4 DEF StatementFails, At

LEMMA RecordInv ==
  ASSUME Inv, NEW h \in Handler, Record(h)
  PROVE  Inv'
<1> DEFINE o == req[h].outcome
           m == Msg(h)
<1>1. req[h].pc = "log" /\ recordEvent(h) /\ UNCHANGED <<kind, msg, jobs, place>>
  BY DEF Record, At, tables
<1>2. TypeOK /\ TableOK /\ HandlerOK(h)
  BY DEF Inv, HandlersOK
<1>3. /\ m \in Messages /\ h[1] \in Env /\ o \in Outcomes /\ log[h] = <<>> /\ req[h].code = 0
      /\ (o = "proxied_to_staging" <=> Proxied(h[1], m))
  BY <1>1, <1>2, Relatives DEF HandlerOK, Stage, TypeOK, State, Env
<1>4. TableOK' /\ Grows
  BY <1>1, <1>2, TablesKept
<1>5. /\ log' \in [Handler -> Seq(Outcomes)] /\ faults' \in 0..MaxFaults
      /\ \A k \in Handler \ {h} : log'[k] = log[k]
      /\ log'[h] = <<o>> \/ log'[h] = <<>>
      /\ \A k \in Handler : Len(log'[k]) <= 1
  <2>1. CASE log' = [log EXCEPT ![h] = Append(@, o)] /\ NoFault
    <3>1. Append(log[h], o) = <<o>> /\ <<o>> \in Seq(Outcomes) /\ Len(<<o>>) = 1
      BY <1>3
    <3> QED
      BY <1>2, <2>1, <3>1 DEF TypeOK, NoFault
  <2>2. CASE Fails(h, "log") /\ UNCHANGED log
    BY <1>2, <1>3, <2>2, WebhookAssumption DEF TypeOK, Fails, Fault, NoFault
  <2> QED
    BY <1>1, <2>1, <2>2 DEF recordEvent
<1>6. \A p : Tells(h, p) <=> p = o
  BY <1>1, <1>3 DEF Tells, Range
<1>7. \A p : p \in Range(log[h])' => p = o
  BY <1>5 DEF Range
<1>8. Recorded(h)' /\ ("log" \notin Faults /\ h[1] = "prod" => Len(log'[h]) = 1)
  <2> SUFFICES ASSUME "log" \notin Faults
               PROVE  /\ h[1] = "prod" => Len(log'[h]) = 1
                      /\ h[1] = "staging" =>
                            \/ Len(log'[h]) = 1
                            \/ req'[Parent(h)].pc = "over" /\ req'[Parent(h)].code # 200
    BY DEF Recorded, Parent
  <2>1. CASE log' = [log EXCEPT ![h] = Append(@, o)]
    <3>1. log'[h] = <<o>>
      BY <1>2, <1>3, <2>1 DEF TypeOK
    <3> QED
      BY <3>1
  <2>2. CASE HungUp(h)
    <3>1. h[1] = "staging" /\ req[Parent(h)].pc = "over"
      BY <2>2 DEF HungUp
    <3>2. Parent(h) \in Handler \ {h} /\ Parent(h)[1] = "prod" /\ Child(Parent(h)) = h
          /\ Msg(Parent(h)) = m
      BY <3>1, Relatives DEF Msg
    <3>3. Proxied("prod", m)
      BY <1>1, <1>2, <3>1 DEF HandlerOK, Linked
    <3>4. req[Parent(h)].code # 200
      BY <1>3, <3>2, <3>3 DEF Inv, HandlersOK, HandlerOK, Linked
    <3>5. req'[Parent(h)] = req[Parent(h)]
      BY <1>2, <3>2 DEF Record, Answer, TypeOK
    <3> QED
      BY <3>1, <3>4, <3>5
  <2> QED
    BY <1>1, <2>1, <2>2 DEF recordEvent, Fails, Fault
<1>9. h[1] = "staging" => /\ Proxied("prod", m) /\ Parent(h) \in Handler \ {h}
                         /\ req[Parent(h)].pc \in {"wait", "over"}
  BY <1>1, <1>2, Relatives DEF HandlerOK, Linked
<1>10. CASE o = "proxied_to_staging"
  <2>1. req' = [req EXCEPT ![h].pc = "forward"]
    BY <1>10 DEF Record
  <2>2. /\ req' \in [Handler -> State]
        /\ req'[h].pc = "forward" /\ req'[h].code = 0
        /\ \A k \in Handler \ {h} : req'[k] = req[k]
    BY <1>2, <1>3, <2>1 DEF TypeOK, State, PCs
  <2>3. TypeOK'
    BY <1>1, <1>2, <1>5, <2>2 DEF TypeOK
  <2>4. Stage(h)'
    BY <1>1, <1>3, <1>10, <2>2, Rigid DEF Stage, Msg
  <2>5. \A p \in InTable : ~Tells(h, p)'
    BY <1>7, <1>10, <2>2 DEF Tells, InTable
  <2>6. Promises(h)'
    BY <2>2, <2>5 DEF Promises
  <2>7. Linked(h)'
    BY <1>1, <1>9, <2>2, Rigid DEF Linked, Msg, Parent
  <2>8. HandlerOK(h)' /\ ~Tells(h, "job_stored")'
    BY <1>8, <2>4, <2>5, <2>6, <2>7 DEF HandlerOK, InTable
  <2> QED
    BY <1>1, <1>4, <1>5, <2>2, <2>3, <2>8, PreservedBut
<1>11. CASE o # "proxied_to_staging"
  <2>1. Answer(h, 200)
    BY <1>11 DEF Record
  <2>2. /\ req' \in [Handler -> State]
        /\ req'[h].pc = "over" /\ req'[h].code = 200
        /\ \A k \in Handler \ {h} : req'[k] = req[k]
    BY <1>2, <2>1, AnswerMeans DEF Codes
  <2>3. TypeOK'
    BY <1>1, <1>2, <1>5, <2>2 DEF TypeOK
  <2>4. Stage(h)'
    BY <1>1, <1>3, <2>2 DEF Stage, Msg
  <2>5. \A p : Tells(h, p)' => Tells(h, p)
    BY <1>6, <1>7, <2>2 DEF Tells
  <2>6. Promises(h)'
    BY <1>1, <1>2, <2>2, <2>5, Rigid DEF HandlerOK, Promises, Msg, IsStored
  <2>7. Linked(h)'
    BY <1>1, <1>3, <1>9, <1>11, <2>2, Rigid DEF Linked, Msg, Parent
  <2>8. HandlerOK(h)'
    BY <1>8, <2>4, <2>6, <2>7 DEF HandlerOK
  <2> QED
    BY <1>1, <1>4, <1>5, <2>2, <2>3, <2>5, <2>8, PreservedBut
<1> QED
  BY <1>10, <1>11

(* A handler of prod that has forwarded, or is to.                         *)
LEMMA AtProxy ==
  ASSUME Inv, NEW h \in Handler, req[h].pc \in {"forward", "wait"}
  PROVE  /\ Msg(h) \in Messages /\ h[1] = "prod" /\ Proxied("prod", Msg(h))
         /\ Child(h) \in Handler \ {h} /\ TypeOK /\ TableOK /\ HandlerOK(h)
<1>1. HandlerOK(h) /\ h[1] \in Env
  BY Relatives DEF Inv, HandlersOK, Env
<1>2. Msg(h) \in Messages /\ Proxied(h[1], Msg(h))
  BY <1>1 DEF HandlerOK, Stage
<1> QED
  BY <1>1, <1>2, VerdictMeans, Relatives DEF Inv

(* It answers something else than 200, without having been accepted.       *)
LEMMA GivesUpInv ==
  ASSUME Inv, NEW h \in Handler, req[h].pc \in {"forward", "wait"},
         UNCHANGED <<kind, msg, jobs, place, log>>, faults' \in 0..MaxFaults,
         NEW c \in Codes \ {200}, Answer(h, c)
  PROVE  Inv'
<1>1. h[1] = "prod" /\ TypeOK /\ TableOK
  BY AtProxy
<1>2. TableOK' /\ Grows
  BY <1>1, TablesKept
<1>3. /\ req' \in [Handler -> State]
      /\ req'[h].pc = "over" /\ req'[h].code = c
      /\ \A k \in Handler \ {h} : req'[k] = req[k]
  BY <1>1, AnswerMeans
<1>4. TypeOK'
  BY <1>1, <1>3 DEF TypeOK
<1>5. HandlerOK(h)' /\ (Tells(h, "job_stored")' => Tells(h, "job_stored"))
  BY <1>1, <1>2, <1>3, Ended
<1> QED
  BY <1>2, <1>3, <1>4, <1>5, PreservedBut

LEMMA ForwardInv ==
  ASSUME Inv, NEW h \in Handler, Forward(h)
  PROVE  Inv'
<1> DEFINE c == Child(h)
           m == Msg(h)
           r == Opening(Verdict("staging", m))
<1>1. req[h].pc = "forward" /\ UNCHANGED <<kind, msg, jobs, place, log>>
  BY DEF Forward, At, tables
<1>2. /\ m \in Messages /\ h[1] = "prod" /\ Proxied("prod", m)
      /\ c \in Handler \ {h} /\ TypeOK /\ TableOK /\ HandlerOK(h)
  BY <1>1, AtProxy
<1>3. TableOK' /\ Grows
  BY <1>1, <1>2, TablesKept
<1>4. CASE NoFault /\ req' = [req EXCEPT ![h].pc = "wait", ![c] = r]
  <2>1. c[1] = "staging" /\ Parent(c) = h /\ c[2] = h[2]
    BY <1>2, Relatives
  <2>2. req[c].pc = "none"
    BY <1>1, <1>2, <2>1 DEF Inv, HandlersOK, HandlerOK, Linked
  <2>3. r \in State
    BY <1>2, OpeningMeans DEF Env
  <2> HIDE DEF c, r
  <2>4. /\ req' \in [Handler -> State]
        /\ req'[h].pc = "wait" /\ req'[h].code = req[h].code
        /\ req'[c] = r
        /\ \A k \in Handler \ {h, c} : req'[k] = req[k]
    BY <1>2, <1>4, <2>3 DEF TypeOK, State, PCs
  <2>5. TypeOK'
    BY <1>1, <1>2, <1>4, <2>4 DEF TypeOK, NoFault
  <2>6. HandlerOK(c)' /\ ~Tells(c, "job_stored")'
    BY <1>1, <1>2, <2>1, <2>2, <2>4, Opened DEF r, Msg
  <2>7. \A o : Tells(h, o)' => Tells(h, o)
    BY <1>1, <2>4 DEF Tells, Range
  <2>8. req'[h].code = 0
    BY <1>1, <1>2, <2>4 DEF HandlerOK, Stage
  <2>9. Stage(h)'
    BY <1>1, <1>2, <2>4, <2>8, Rigid DEF Stage, Msg
  <2>10. Promises(h)'
    BY <1>1, <1>2, <2>4, <2>7, <2>8 DEF HandlerOK, Promises, Msg, IsStored
  <2>11. Linked(h)' /\ Recorded(h)'
    BY <1>1, <1>2, <2>4, <2>8 DEF HandlerOK, Linked, Recorded
  <2>12. HandlerOK(h)'
    BY <2>9, <2>10, <2>11 DEF HandlerOK
  <2> DEFINE A == {h, c}
  <2>13. A \in SUBSET Handler /\ \A k \in A : k = h \/ k = c
    BY <1>2
  <2>14. \A k \in A : /\ HandlerOK(k)'
                      /\ Tells(k, "job_stored")' => Tells(k, "job_stored")
    BY <2>6, <2>7, <2>12, <2>13
  <2>15. \A k \in Handler \ A : req'[k] = req[k] /\ log'[k] = log[k]
    BY <1>1, <2>4
  <2>16. \A k \in A : req[k].pc # "over" /\ req[k].pc # "wait"
    BY <1>1, <2>2
  <2> HIDE DEF A
  <2> QED
    BY <1>1, <1>3, <2>5, <2>13, <2>14, <2>15, <2>16, Preserved
<1>5. CASE Fault("net") /\ Answer(h, 502)
  <2>1. faults' \in 0..MaxFaults
    BY <1>2, <1>5, WebhookAssumption DEF Fault, TypeOK
  <2>2. 502 \in Codes \ {200}
    BY DEF Codes
  <2> QED
    BY <1>1, <1>5, <2>1, <2>2, GivesUpInv
<1> QED
  BY <1>4, <1>5 DEF Forward

LEMMA RelayInv ==
  ASSUME Inv, NEW h \in Handler, Relay(h)
  PROVE  Inv'
<1> DEFINE c == Child(h)
           code == req[c].code
<1>1. req[h].pc = "wait" /\ UNCHANGED <<kind, msg, jobs, place, log, faults>> /\ Answer(h, code)
  BY DEF Relay, At, tables
<1>2. /\ Msg(h) \in Messages /\ h[1] = "prod" /\ Proxied("prod", Msg(h))
      /\ c \in Handler \ {h} /\ TypeOK /\ TableOK /\ HandlerOK(h)
  BY <1>1, AtProxy
<1>3. code \in Codes /\ faults' \in 0..MaxFaults
  BY <1>1, <1>2 DEF TypeOK, State
<1>4. CASE code # 200
  BY <1>1, <1>3, <1>4, GivesUpInv
<1>5. CASE code = 200
  <2>1. TableOK' /\ Grows
    BY <1>1, <1>2, TablesKept
  <2>2. /\ req' \in [Handler -> State]
        /\ req'[h].pc = "over" /\ req'[h].code = 200
        /\ \A k \in Handler \ {h} : req'[k] = req[k]
    BY <1>1, <1>2, <1>3, <1>5, AnswerMeans
  <2>3. TypeOK'
    BY <1>1, <1>2, <2>2 DEF TypeOK
  <2>4. \A o : Tells(h, o)' => Tells(h, o)
    BY <1>1, <2>2 DEF Tells, Range
  <2>5. Stage(h)'
    BY <1>1, <1>2, <2>2 DEF Stage, Msg
  <2>6. ~Served("prod", Msg(h))
    BY <1>2 DEF Served, Proxied
  <2>7. Promises(h)'
    BY <1>1, <1>2, <2>2, <2>4, <2>6, Rigid DEF HandlerOK, Promises, Msg, IsStored
  <2>8. Linked(h)'
    BY <1>2, <1>5, <2>2 DEF Linked, Child
  <2>9. Recorded(h)'
    BY <1>1, <1>2 DEF HandlerOK, Recorded
  <2>10. HandlerOK(h)'
    BY <2>5, <2>7, <2>8, <2>9 DEF HandlerOK
  <2> QED
    BY <1>1, <2>1, <2>2, <2>3, <2>4, <2>10, PreservedBut
<1> QED
  BY <1>4, <1>5

LEMMA ProxyFailsInv ==
  ASSUME Inv, NEW h \in Handler, ProxyFails(h)
  PROVE  Inv'
<1>1. /\ req[h].pc = "wait" /\ UNCHANGED <<kind, msg, jobs, place, log, faults>>
      /\ Answer(h, 502)
  BY DEF ProxyFails, At, tables
<1>2. 502 \in Codes \ {200} /\ faults' \in 0..MaxFaults
  BY <1>1 DEF Codes, Inv, TypeOK
<1> QED
  BY <1>1, <1>2, GivesUpInv

LEMMA CrashInv ==
  ASSUME Inv, NEW e \in Env, Crash(e)
  PROVE  Inv'
<1> DEFINE A == {h \in Handler : h[1] = e /\ req[h].pc \notin {"none", "over"}}
<1>1. /\ UNCHANGED <<kind, msg, jobs, place, log>> /\ Fault("crash")
      /\ req' = [h \in Handler |-> IF h[1] = e /\ req[h].pc # "none"
                                     THEN [req[h] EXCEPT !.pc = "over"] ELSE req[h]]
  BY DEF Crash, tables
<1>2. TypeOK /\ TableOK
  BY DEF Inv
<1>3. TableOK' /\ Grows
  BY <1>1, <1>2, TablesKept
<1>4. \A h \in A : req'[h] \in State /\ req'[h].pc = "over" /\ req'[h].code = req[h].code
  BY <1>1, <1>2 DEF TypeOK, State, PCs
<1>5. \A h \in Handler \ A : req'[h] = req[h]
  <2> SUFFICES ASSUME NEW h \in Handler, h[1] = e, req[h].pc = "over"
               PROVE  [req[h] EXCEPT !.pc = "over"] = req[h]
    BY <1>1
  <2>1. req[h] \in State
    BY <1>2 DEF TypeOK
  <2> QED
    BY <2>1 DEF State
<1>6. TypeOK'
  <2>1. faults' \in 0..MaxFaults
    BY <1>1, <1>2, WebhookAssumption DEF Fault, TypeOK
  <2>2. req' \in [Handler -> State]
    BY <1>1, <1>2, <1>4, <1>5 DEF TypeOK
  <2> QED
    BY <1>1, <1>2, <2>1, <2>2 DEF TypeOK
<1>7. A \in SUBSET Handler /\ \A k \in A : req[k].pc \notin {"none", "over"}
  OBVIOUS
<1> HIDE DEF A
<1>8. \A h \in A : HandlerOK(h)' /\ (Tells(h, "job_stored")' => Tells(h, "job_stored"))
  <2> SUFFICES ASSUME NEW h \in A
               PROVE  HandlerOK(h)' /\ (Tells(h, "job_stored")' => Tells(h, "job_stored"))
    OBVIOUS
  <2>1. h \in Handler /\ req[h].pc \notin {"none", "over"} /\ HandlerOK(h)
    BY <1>7 DEF Inv, HandlersOK
  <2>2. req'[h].code = 0 /\ req'[h].pc = "over"
    BY <1>4, <2>1 DEF HandlerOK, Stage
  <2>3. h[1] = "staging" => req'[Parent(h)].pc \in {"wait", "over"}
    <3>1. h[1] = "staging" => Parent(h) \in Handler /\ req[Parent(h)].pc \in {"wait", "over"}
      BY <2>1, Relatives DEF HandlerOK, Linked
    <3> QED
      BY <1>4, <1>5, <3>1
  <2> QED
    BY <1>1, <1>3, <2>1, <2>2, <2>3, Ended
<1>9. \A k \in A : req[k].pc # "over" /\ (req[k].pc = "wait" => req'[k].pc \in {"wait", "over"})
  BY <1>4, <1>7
<1> QED
  BY <1>1, <1>3, <1>5, <1>6, <1>7, <1>8, <1>9, Preserved

-----------------------------------------------------------------------------
LEMMA Inductive == Spec => []Inv
<1>1. Inv /\ [Next]_vars => Inv'
  <2> SUFFICES ASSUME Inv, [Next]_vars PROVE Inv'
    OBVIOUS
  <2>1. CASE \E d \in Delivery, m \in Messages : Deliver(d, m)
    BY <2>1, DeliverInv
  <2>2. CASE \E d \in Delivery, n \in Attempt \ {1} : Redeliver(d, n)
    BY <2>2, RedeliverInv
  <2>3. CASE \E h \in Handler : Step(h)
    BY <2>3, AddJobInv, MarkJobInv, LookUpInv, StatementFailsInv, RecordInv, ForwardInv,
       RelayInv, ProxyFailsInv DEF Step
  <2>4. CASE \E e \in Env : Crash(e)
    BY <2>4, CrashInv
  <2>5. CASE UNCHANGED vars
    <3>1. UNCHANGED <<kind, msg, req, jobs, place, log, faults>>
      BY <2>5 DEF vars, tables
    <3>2. TypeOK'
      BY <3>1 DEF Inv, TypeOK
    <3>3. TableOK' /\ Grows
      BY <3>1, TablesKept DEF Inv
    <3> DEFINE A == {}
    <3>4. A \in SUBSET Handler /\ \A k : k \notin A
      OBVIOUS
    <3> HIDE DEF A
    <3> QED
      BY <3>1, <3>2, <3>3, <3>4, Preserved
  <2> QED
    BY <2>1, <2>2, <2>3, <2>4, <2>5 DEF Next
<1> QED
  BY <1>1, InitInv, PTL DEF Spec

(* The variables keep their types, for any jobs, deliveries, attempts,     *)
(* messages and faults.                                                    *)
THEOREM TypeCorrect == Spec => []TypeOK
<1>1. Inv => TypeOK
  BY DEF Inv
<1> QED BY <1>1, Inductive, PTL

(* Whatever handlers die, time out, repeat or lose their answers, a job    *)
(* whose webhook was answered 200 is in the table of its environment.      *)
THEOREM AcknowledgedIsStored == Spec => []AcknowledgedJobStored
<1>1. Inv => AcknowledgedJobStored
  <2> SUFFICES ASSUME Inv, NEW d \in Delivery, NEW n \in Attempt,
                      req[<<"prod", d, n>>].code = 200, NewJob(msg[d])
               PROVE  jobs[Home(msg[d].job)][msg[d].job].status # "absent"
    BY DEF AcknowledgedJobStored
  <2> DEFINE h == <<"prod", d, n>>
             c == <<"staging", d, n>>
             m == msg[d]
  <2>1. h \in Handler /\ c \in Handler /\ Child(h) = c /\ Msg(h) = m /\ Msg(c) = m
        /\ h[1] = "prod" /\ c[1] = "staging"
    BY DEF Handler, Env, Child, Msg
  <2>2. HandlerOK(h) /\ HandlerOK(c)
    BY <2>1 DEF Inv, HandlersOK
  <2>3. m \in Messages
    BY <2>1, <2>2 DEF HandlerOK, Stage
  <2>4. "prod" \in Env /\ "staging" \in Env
    BY DEF Env
  <2>5. CASE Proxied("prod", m)
    <3>1. req[c].code = 200
      BY <2>1, <2>2, <2>5 DEF HandlerOK, Linked
    <3>2. Served("staging", m) /\ Home(m.job) = "staging"
      BY <2>3, <2>4, <2>5, VerdictMeans DEF Home, Entity
    <3> QED
      BY <2>1, <2>2, <3>1, <3>2 DEF HandlerOK, Promises, IsStored
  <2>6. CASE ~Proxied("prod", m)
    <3>1. Served("prod", m) /\ Home(m.job) = "prod"
      BY <2>3, <2>4, <2>6, VerdictMeans DEF Home, Entity
    <3> QED
      BY <2>1, <2>2, <3>1 DEF HandlerOK, Promises, IsStored
  <2> QED
    BY <2>5, <2>6
<1> QED BY <1>1, Inductive, PTL

(* A stored job was asked for, is in the one environment it belongs to,    *)
(* and goes to the boards of its own route: for every entity and every     *)
(* list of labels, not only those of the run.                              *)
THEOREM StoredInItsPlace == Spec => []StoredWhereItBelongs
<1>1. Inv => StoredWhereItBelongs
  <2>1. Null \notin Messages
    BY WebhookAssumption
  <2> QED
    BY <2>1 DEF Inv, TableOK, IsStored, StoredWhereItBelongs
<1> QED BY <1>1, Inductive, PTL

(* What is banned reaches neither the table nor staging.                   *)
THEOREM BannedStaysOut == Spec => []BannedReachesNeither
<1>1. Inv => BannedReachesNeither
  <2> SUFFICES ASSUME Inv, NEW d \in Delivery, msg[d] # Null, Banned(msg[d]), NEW n \in Attempt
               PROVE  /\ req[<<"staging", d, n>>].pc = "none"
                      /\ req[<<"prod", d, n>>].pc \notin {"write", "lookup", "forward", "wait"}
    BY DEF BannedReachesNeither
  <2> DEFINE h == <<"prod", d, n>>
             c == <<"staging", d, n>>
  <2>1. h \in Handler /\ c \in Handler /\ Msg(h) = msg[d] /\ Msg(c) = msg[d]
        /\ h[1] = "prod" /\ c[1] = "staging" /\ "prod" \in Env
    BY DEF Handler, Env, Msg
  <2>2. HandlerOK(h) /\ HandlerOK(c) /\ msg[d] \in Messages
    BY <2>1 DEF Inv, HandlersOK, TypeOK
  <2>3. ~Served("prod", msg[d]) /\ ~Proxied("prod", msg[d])
    BY <2>1, <2>2, VerdictMeans
  <2> QED
    BY <2>1, <2>2, <2>3 DEF HandlerOK, Stage, Linked
<1> QED BY <1>1, Inductive, PTL

(* As long as writing a row of installation_events does not fail by        *)
(* itself, what was accepted has its row, in staging too.                  *)
THEOREM AcceptedIsRecorded ==
  ASSUME "log" \notin Faults
  PROVE  Spec => []AcceptedHasRow
<1>1. Inv => AcceptedHasRow
  <2> SUFFICES ASSUME Inv, NEW d \in Delivery, NEW n \in Attempt,
                      req[<<"prod", d, n>>].code = 200
               PROVE  /\ Len(log[<<"prod", d, n>>]) = 1
                      /\ Proxied("prod", msg[d]) => Len(log[<<"staging", d, n>>]) = 1
    BY DEF AcceptedHasRow, Proxied
  <2> DEFINE h == <<"prod", d, n>>
             c == <<"staging", d, n>>
  <2>1. h \in Handler /\ c \in Handler /\ Child(h) = c /\ Parent(c) = h /\ Msg(h) = msg[d]
        /\ h[1] = "prod" /\ c[1] = "staging"
    BY DEF Handler, Env, Child, Parent, Msg
  <2>2. HandlerOK(h) /\ HandlerOK(c)
    BY <2>1 DEF Inv, HandlersOK
  <2> QED
    BY <2>1, <2>2 DEF HandlerOK, Linked, Recorded
<1> QED BY <1>1, Inductive, PTL

(* The log agrees with the table, across all attempts at all deliveries.   *)
THEOREM LogAgrees == Spec => []LogAgreesWithTable
<1>1. Inv => LogAgreesWithTable
  <2> SUFFICES ASSUME Inv, NEW e \in Env, NEW j \in Job
               PROVE  LET of(o) == {h \in Handler : h[1] = e /\ o \in Range(log[h]) /\ Msg(h).job = j}
                      IN /\ Cardinality(of("job_stored")) <= 1
                         /\ (\E o \in InTable : of(o) # {}) => jobs[e][j].status # "absent"
    BY DEF LogAgreesWithTable, InTable
  <2> DEFINE of(o) == {h \in Handler : h[1] = e /\ o \in Range(log[h]) /\ Msg(h).job = j}
  <2>1. \A h, k \in of("job_stored") : h = k
    BY DEF Inv, StoredOnce, Tells
  <2>2. Cardinality(of("job_stored")) <= 1
    <3>1. CASE of("job_stored") = {}
      <4> HIDE DEF of
      <4> QED
        BY <3>1, FS_EmptySet
    <3>2. CASE of("job_stored") # {}
      <4>1. PICK h : h \in of("job_stored")
        BY <3>2
      <4>2. of("job_stored") = {h}
        BY <2>1, <4>1
      <4> HIDE DEF of
      <4> QED
        BY <4>2, FS_Singleton, SMTT(60)
    <3> QED
      BY <3>1, <3>2
  <2>3. ASSUME NEW o \in InTable, of(o) # {} PROVE jobs[e][j].status # "absent"
    <3>1. PICK h \in Handler : h[1] = e /\ o \in Range(log[h]) /\ Msg(h).job = j
      BY <2>3
    <3>2. HandlerOK(h) /\ Tells(h, o)
      BY <3>1 DEF Inv, HandlersOK, Tells
    <3> QED
      BY <3>1, <3>2 DEF HandlerOK, Promises, IsStored
  <2> QED
    BY <2>2, <2>3
<1> QED BY <1>1, Inductive, PTL

-----------------------------------------------------------------------------
(* The tables implement JobLifecycle.                                      *)

Advance(r, s) == Prod!Advance(r, s) /\ Staging!Advance(r, s)

(* A row that is not there has nothing in it.                              *)
AbsentEmpty == \A e \in Env, j \in Job :
  jobs[e][j].status = "absent" => jobs[e][j] = AbsentRow

(* A statement creates a row, moves it forward or leaves it.               *)
LEMMA StatementAdvances ==
  ASSUME NEW row \in Row, row.status = "absent" => row = AbsentRow,
         NEW m \in Messages, NEW new \in {AddJobRow(row), Marked(row, m)}
  PROVE  /\ new = row \/ Advance(row, new)
         /\ new.status = "absent" => new = AbsentRow
<1>1. m.runner \in RunnerName
  BY WebhookAssumption DEF Message
<1>2. CASE new = AddJobRow(row)
  BY <1>2 DEF AddJobRow, PendingRow, AbsentRow, Row, Advance,
     Prod!Advance, Prod!Created, Prod!PendingRow, Prod!AbsentRow,
     Staging!Advance, Staging!Created, Staging!PendingRow, Staging!AbsentRow
<1>3. CASE new = Marked(row, m)
  BY <1>1, <1>3, NamesAssumption
     DEF Marked, MarkRunningRow, MarkCompletedRow, Coalesce, Row, AbsentRow, RunnerName,
         ActiveStatus, Reason, Advance,
         Prod!Advance, Prod!Started, Prod!Completed, Prod!NamedOnce, Prod!ActiveStatus,
         Staging!Advance, Staging!Started, Staging!Completed, Staging!NamedOnce,
         Staging!ActiveStatus
<1> QED
  BY <1>2, <1>3

(* Nothing else writes the tables, and one statement writes one row.       *)
LEMMA OneStatement ==
  ASSUME Inv, [Next]_vars
  PROVE  \/ jobs' = jobs
         \/ \E h \in Handler :
              LET f == h[1]  i == Msg(h).job
              IN /\ f \in Env /\ i \in Job /\ Msg(h) \in Messages
                 /\ \E new \in {AddJobRow(jobs[f][i]), Marked(jobs[f][i], Msg(h))} :
                      jobs' = [jobs EXCEPT ![f][i] = new]
<1>1. CASE \E h \in Handler : AddJob(h)
  BY <1>1, AtStatement DEF AddJob, At, Inserted
<1>2. CASE \E h \in Handler : MarkJob(h)
  BY <1>2, AtStatement DEF MarkJob, At, Updated
<1>3. CASE \E h \in Handler : StatementFails(h)
  BY <1>3, AtStatement DEF StatementFails, At, Inserted, Updated, tables
<1>4. CASE \E h \in Handler : LookUp(h) \/ Record(h) \/ Forward(h) \/ Relay(h) \/ ProxyFails(h)
  BY <1>4 DEF LookUp, Record, Forward, Relay, ProxyFails, tables
<1>5. CASE \/ \E d \in Delivery, m \in Messages : Deliver(d, m)
           \/ \E d \in Delivery, n \in Attempt \ {1} : Redeliver(d, n)
           \/ \E e \in Env : Crash(e)
           \/ UNCHANGED vars
  BY <1>5 DEF Deliver, Redeliver, Crash, tables, vars
<1> QED
  BY <1>1, <1>2, <1>3, <1>4, <1>5 DEF Next, Step

LEMMA TableStep ==
  ASSUME Inv, Inv', AbsentEmpty, [Next]_vars
  PROVE  /\ AbsentEmpty'
         /\ \A e \in Env : \/ jobs'[e] = jobs[e]
                          \/ /\ jobs'[e] \in [Job -> Row]
                             /\ \A j \in Job : jobs'[e][j] = jobs[e][j]
                                             \/ Advance(jobs[e][j], jobs'[e][j])
<1>1. jobs \in [Env -> [Job -> Row]] /\ jobs' \in [Env -> [Job -> Row]]
  BY DEF Inv, TypeOK
<1>2. ASSUME NEW e \in Env, NEW j \in Job
      PROVE  /\ jobs'[e][j] = jobs[e][j] \/ Advance(jobs[e][j], jobs'[e][j])
             /\ jobs'[e][j].status = "absent" => jobs'[e][j] = AbsentRow
  <2>1. CASE jobs'[e][j] = jobs[e][j]
    BY <2>1 DEF AbsentEmpty
  <2>2. CASE jobs'[e][j] # jobs[e][j]
    <3>1. PICK h \in Handler :
            LET f == h[1]  i == Msg(h).job
            IN /\ f \in Env /\ i \in Job /\ Msg(h) \in Messages
               /\ \E new \in {AddJobRow(jobs[f][i]), Marked(jobs[f][i], Msg(h))} :
                    jobs' = [jobs EXCEPT ![f][i] = new]
      BY <2>2, OneStatement
    <3>2. jobs'[e][j] \in {AddJobRow(jobs[e][j]), Marked(jobs[e][j], Msg(h))}
      BY <1>1, <2>2, <3>1
    <3>3. jobs[e][j] \in Row /\ (jobs[e][j].status = "absent" => jobs[e][j] = AbsentRow)
      BY <1>1 DEF AbsentEmpty
    <3> QED
      BY <3>1, <3>2, <3>3, StatementAdvances
  <2> QED
    BY <2>1, <2>2
<1> QED
  BY <1>1, <1>2 DEF AbsentEmpty

(* In each environment the handlers implement JobLifecycle: repeated,      *)
(* reordered and concurrent webhooks, statements whose answer is lost and  *)
(* processes that die move a row forward only, and name its runner once.   *)
THEOREM TablesMoveForward == Spec => TablesForward
<1>1. Init => AbsentEmpty /\ Prod!Init /\ Staging!Init
  BY DEF Init, AbsentEmpty, EmptyTable, AbsentRow, Env, Prod!Init, Prod!EmptyTable,
     Prod!AbsentRow, Staging!Init, Staging!EmptyTable, Staging!AbsentRow
<1>2. ASSUME Inv, Inv', AbsentEmpty, [Next]_vars
      PROVE  AbsentEmpty' /\ [Prod!Next]_(jobs["prod"]) /\ [Staging!Next]_(jobs["staging"])
  <2>1. /\ "prod" \in Env /\ "staging" \in Env
        /\ Row = Prod!Row /\ Row = Staging!Row
    BY DEF Env, Row, RunnerName, ActiveStatus, TerminalStatus, Reason,
       Prod!Row, Prod!RunnerName, Prod!ActiveStatus, Prod!TerminalStatus, Prod!Reason,
       Staging!Row, Staging!RunnerName, Staging!ActiveStatus, Staging!TerminalStatus,
       Staging!Reason
  <2> QED
    BY <1>2, <2>1, TableStep DEF Prod!Next, Staging!Next, Advance
<1> QED
  BY <1>1, <1>2, Inductive, PTL DEF Spec, TablesForward, Prod!Spec, Staging!Spec

=============================================================================
