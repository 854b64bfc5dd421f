# A TLA+ model of riscv-runner

riscv-runner gives GitHub repositories RISC-V machines to run their workflow
jobs on. A GitHub App sends webhooks to `ghfe`, which records jobs in
PostgreSQL; a `scheduler` compares the two tables `jobs` and `workers` with
GitHub and Kubernetes and creates one pod, with one ephemeral runner in it, for
each job that needs one; a device plugin on each node advertises the node's one
slot. This directory holds TLA+ modules for the parts of the program that are
hard to get right, the TLC configurations that check them on small instances,
and TLAPS proofs of the main safety properties for all instances.

Paths are relative to the repository (`control-plane/...` is
`src/control-plane/...` in `PROJECT.json`).

## Inventory

| Part | State it keeps | Operations | What is hard about it |
|---|---|---|---|
| `jobs` table (`internal/db.go`) | status, `k8s_pod`, `failure_info` of each job | `AddJob`, `MarkJobRunning`, `MarkJobCompleted`, `MarkJobFailed` | written by two processes; forward only |
| `workers` table (`internal/db.go`) | status of each worker (pod and runner share its name) | `AddWorker`, `MarkWorker*` under `LOCK TABLE workers` | two schedulers during a deploy, lost transactions |
| webhook handler (`cmd/ghfe/webhook.go`) | none of its own | one statement per `workflow_job` event, one audit row | webhooks late, repeated, reordered, lost |
| `syncJobsState` (`cmd/scheduler/sync_jobs.go`) | the rows it read at the start | GitHub's answer applied to each active row | stale reads; two reads of GitHub that disagree |
| `syncWorkersState` (`cmd/scheduler/sync_workers.go`) | one listing of pods and nodes, one of runners | five phases and the check for unreachable nodes | judges by what it read earlier; some calls fail |
| `demandMatch` (`cmd/scheduler/demand_match.go`) | slots left, fair queue, entities backed off | reserve a name, JIT configuration, create the pod | effects outside the transaction |
| iteration (`cmd/scheduler/main.go`, `WithWorkerLock`) | the transaction and the table lock | the three functions above, then commit | crash, SQL error, lost connection in the middle |
| main loop (`cmd/scheduler/main.go`, `WaitForJob`) | the listening connection | iterate, wait for a NOTIFY or the poll interval | notifications that are lost or come while busy |
| GitHub client (`internal/github.go`) | tokens, cached responses, cooldowns | all calls to the API | eviction, staleness, back-off |
| Kubernetes client (`internal/k8s.go`) | none | list, create, kill, delete, count slots | calls whose answer is lost; selectors that overlap |
| device plugin (`runner/device-plugin`) | a gRPC server, a registration | serve, register, watch the kubelet's socket | the kubelet restarts at any time |
| SoC detection (`runner/device-plugin/pkg/soc`) | none | the board of a triple or of the device tree | unknown hardware |
| node watchdogs (`runner/ansible/.../*-watchdog.sh.j2`) | failed probes, a file of restarts | restart the kubelet or containerd | limits counted in a pruned file |
| dashboards, weekly usage (`cmd/scheduler/handlers.go`, ...) | none | read-only pages | none modelled |

The parts interact through the two tables (ghfe and scheduler), through
GitHub's and Kubernetes' APIs (scheduler, runner, device plugin), and through
time-outs: nothing tells the scheduler that a runner died.

What makes each part correct:

- `jobs` table, webhook statement and `syncJobsState`: a row never runs ahead of
  GitHub, moves only forward, shares no runner, is failed only on GitHub's word, and
  follows GitHub in the end even when no webhook arrives.
- webhook handler: what was acknowledged is stored, once, in the right environment and
  for the right nodes; the bans hold everywhere; the audit rows tell what happened.
- `workers` table, `syncWorkersState` and the iteration: decisions from old listings
  stay safe; no busy runner is killed; no slot and no row is held for ever by a worker
  that is over or idle.
- main loop: every job is looked at, whatever becomes of its notification.
- selectors and slots: pods that wait are never more than the nodes that can take them.
- `demandMatch`: never more pods than slots or than an entity's cap; slots shared
  fairly and in order; nobody starves; a job passed over has a runner.
- GitHub client: the right body and token, fresh enough, within GitHub's limits.
- device plugin and watchdogs: a node advertises its slot under its own board only, and
  again after its kubelet restarts or hangs; the watchdogs' restarts are spaced.

`PROJECT.json` lists every component with its status, and under `hazards` each
place where the code can go wrong in a way a test would hardly reach.

## Modules

```
JobTable          row operations of the jobs table
  JobLifecycle    what a jobs row promises (abstract)
  Jobs            ghfe + syncJobsState  ==>  implements JobLifecycle
    JobsProofs, MCJobs
Workers           WithWorkerLock + syncWorkersState + demandMatch, one entity and pool
  WorkersProofs, MCWorkers
DemandMatch       demandMatch over several entities and pools
  DemandMatchProofs, MCDemandMatch
  SchedulerLoop   the main loop around it: WaitForJob, NOTIFY, failing iterations
    SchedulerLoopProofs, MCSchedulerLoop
Placement         AvailableSlots for selectors that overlap, and Kubernetes' scheduler
  PlacementProofs, MCPlacement
LabelRouting      the table of routes from labels to nodes
  Webhook         ghfe in prod and staging (with JobTable)
    WebhookProofs, MCWebhook
GHClient          the client of GitHub's API
  GHClientProofs, MCGHClient
DevicePlugin      device plugin, SoC detection and kubelet-watchdog of one node
  DevicePluginProofs, MCDevicePlugin
```

### JobTable, JobLifecycle, Jobs

`JobTable` gives each SQL statement of `internal/db.go` on `jobs` as an operator
from the row it finds to the row it leaves: `AddJobRow` is `ON CONFLICT DO
NOTHING`; the three `MarkJob*` operators keep their `WHERE status ...` guards and
their `COALESCE(k8s_pod, ...)`. A row keeps `status`, `pod` (`k8s_pod`) and
`info` (which of the scheduler's reasons `failure_info` carries).

`Jobs` has GitHub (`ghState`, `ghRunner`, `runDone`, `gone`), the set `sent` of
webhooks GitHub has emitted, the committed table `jobs`, and the scheduler's
iteration. A webhook stays in `sent` for ever: taking one is a delivery, taking
it again a redelivery, never taking it a loss; nothing orders them. `Queued`,
`InProgress` and `Completed` are the branches of `handleWorkflowJobEvent` that
reach the database. `BeginSync` is `GetActiveJobs`; `ReadJob`, `ReadGone` and
`ReadError` are the outcomes of the authentication and of `GetJobInfo` for one
row; `ApplyCompleted`, `ApplyInProgress`, `ApplyQueued` (with
`reconcileStuckQueued`) and `RunError` act on the answer, in a separate step
because the world moves in between. The iteration writes in one READ COMMITTED
transaction: `dirty` and `view` are the rows it has written and so locked,
invisible to others until `Commit`; a webhook that would update such a row
waits. `Abort` (crash, lost connection, SQL error) drops them.

`JobLifecycle` is the abstract promise: a row is created pending, moves
forward, is named once, and never changes when terminal. `Jobs!ForwardOnly` is
that specification under the mapping `row <- jobs`; `Webhook!TablesForward` is it
twice, for the tables of prod and of staging.

### Workers

One entity, one runner target and one pool; a worker is its row, its pod and its
runner, under one name. `row` is the committed status, `pod`/`killed`/`down`
Kubernetes, `runner` GitHub, `jobRow` the runners that some job names in
`k8s_pod`, `late`/`age` the time-outs that have passed, `sch` each scheduler's
local state. Every action of an iteration is a stretch of code between two
calls: `Lock` (BEGIN, LOCK TABLE), `ListPods`, `SyncPods` (phases 1 and 2, which
touch only the transaction), `UnreachableNodeCheck`, `HealthChecks` (the runner
list), `KeepWorker`/`GiveUp`/`FailAndCleanup` (`classifyWorker` and
`failAndCleanup`, the delete of the registration and the kill being two steps),
`BeginCleanup`/`GitHubCleanup`, `DeleteTerminalPods`, `DemandMatch`,
`SkipJob`/`ReserveRunnerName`/`CreateJIT`/`CreatePod`, `EndMatch`, and
`Commit`/`Rollback`/`Crash`/`LoseTransaction`. Between any two of them pods
start and end, runners connect and take jobs, time-outs pass, and the other
scheduler works.

The transaction is `view` and `wrote`: writes become `row` only at `Commit`,
while calls to Kubernetes and GitHub act at once and stay. `live` is whether the
transaction can still commit: after an SQL error (`sql`) every later statement
fails but the iteration runs on, holding the lock; after a lost connection
(`conn`) it runs on without the lock.

`Faults` names the kinds of fault a run allows and `MaxFaults` how many: `crash`
(the process dies or panics), `sql`, `conn`, `pods` (a listing of Kubernetes),
`auth` (a token), `list` (GitHub's runners), `delete` (of a registration),
`kill` (KillPod or ForceDeletePod), `limit` (GitHub's rate limit), `jit`,
`create` (the pod's creation, with or without effect), `node` (a node becomes
unreachable, for good).

Left out: more than one entity or pool, the pages of the runner list, failure
reports, and the node a pod runs on (a pod is on a node that is `down` or not).
A killed pod is assumed to have a node: a kubelet enforces
`activeDeadlineSeconds`, so one that was never scheduled would stay pending. A
name drawn by `reserveRunnerName` is new to GitHub and Kubernetes as well as to
the table (nine random characters).

### DemandMatch

`Workers` sees one entity and one pool; `DemandMatch` asks which pending job gets
the next slot when several entities and pools compete. A job or worker has a class
`[entity, target, labels, pool]`: `target` is where its runner is registered (the
organization, or one repository of a personal account), `pool` the node selector.
An iteration is `BeginMatch` (syncWorkersState, then GetPendingJobs: `pend`, and
`rank`, the order of its rows), then for each pool, in any order (a Go map),
`PickPool` (AvailableSlots: `slots` and `active`) or `PoolError`, and one step per
job popped: `Skip`, `Provision`, `ProvisionFails` or `RateLimited`, until
`LeavePool`. `Popped` is `fairJobQueue.pop`. In between, jobs come, are cancelled
and finish, and runners take jobs and time out.

The phase of a worker stands for its row, its pod and its runner together: "idle"
and "stale" wait for a job (for too long), "busy" runs one, "ended" has a pod that
is over and a row that is not yet, "dying" a failed row and a pod that still holds
its slot. Faults, the transaction and the time of starting a pod are in `Workers`;
here an iteration commits. Pools are disjoint, as `Placement` shows what follows when
they are not.
`had` remembers what `active` was when the pool was picked; only a property reads it.

### SchedulerLoop

`SchedulerLoop` extends `DemandMatch` with what runs it: `at` says whether the process
is in an iteration, waits in `WaitForJob`, or drains; `mail` whether notifications are
buffered for the listening connection, `conn` whether that is alive; `fresh` is a
history variable that only a property reads. An iteration is `Begin`, `Match` and
`End`, or `IterationFails` (BEGIN or LOCK TABLE fails, or a panic is recovered); then
`Hears`, `PollTimeout` or `ListenError`, and `Drain`. `JobArrives` is `AddJob`, whose
NOTIFY may have no effect. `ConnLost` ends the connection for good: the code opens it
once. A lost connection and a failed call are counted together (`MaxFailures`).

### Placement

Selectors overlap: one without a provider means any vendor's machine of that board
(`selector.go`). `where` and `sel` are the pods, `offered` the nodes with an
allocatable slot, `lock` and `sch` the schedulers. `ListNodes` and `ListPods` are the
two halves of `AvailableSlots`, `Counts` its rule for which pod counts; `CreatePod` is
`ProvisionRunner`; `Bind` is Kubernetes, which takes any node that fits. An iteration
may visit a selector more than once here, and in any order: more than the code does.
`LoseConnection` frees the lock while its holder runs on, and `unlocked` remembers the
pods it then creates. A pod leaves the count only when it is over, so that a killed pod
that was never scheduled counts until Kubernetes has placed it.

### LabelRouting, Webhook

`Jobs` takes the webhook handler for one statement; `Webhook` is all of it, in the
two environments that share the GitHub App. GitHub delivers to prod (`Deliver`), and
again when it pleases (`Redeliver`); an attempt is a handler, a record `req[env,
delivery, attempt]` of where it is (`pc`), the `outcome` of its audit row and the HTTP
`code` it answered. What an attempt does is decided by the message alone: `Verdict` is
the sequence of early returns of `handleWebhook` and `handleWorkflowJobEvent`, in
order, with `LabelRouting`'s table for the label test. Then follow, each a step of its
own with other attempts in between, the statement (`AddJob`, or `MarkJob` and
`LookUp`), the audit row (`Record`), and for staging entities `Forward` and `Relay` or
`ProxyFails`. `StatementFails` loses a statement or only its answer; a handler of
staging whose caller has hung up may fail in the same way, because its context is
cancelled. `Crash` ends a process with its handlers, and so does a deploy, since
`main` does not wait for `Shutdown`.

The several 400s and the 401 are one. What `payload.go` keeps of a payload and the
installation events of the scheduler (`gh_auth.go`) are not in the model.

### GHClient

The scheduler makes one call at a time, so the client has one caller: `Cached`,
`Requests`/`Issued`/`NotIssued` are `AuthenticateApp`, and `FailsFast`, `FromCache`,
`Send`/`Answered`/`NotModified`/`RetryAfter`/`RateLimitReset`/`Ends` are `doRequest`.
Time passes (`Tick`)
and resources change (`Changes`) at any point, also while a call is out; GitHub answers
with any version that was current during the call, and 304 only if that is the version
of the cached entry. A body is the installation, resource and version it was made for.
`tokens`/`order` and `respCache`/`respOrder` are the two caches with their orders of
eviction, `cooldowns` the times to wait. `issued`, `changed` and `told` are GitHub's side:
a token is issued, and a request refused, at any moment since it was sent, which is
earlier than the answer arrives. GitHub counts a token's life and a `Retry-After` from
that moment; the code counts the life from the answer and the `Retry-After` from before
the request. GitHub and the client are taken to share one clock, and `told[t].taken` is
what lies between the request and the refusal.

The request for a token goes through `doRequest` too, under a key that is new each
second; whether it is refused changes nothing that is met again, so it is
`NotIssued`. It may take any time: `http.DefaultClient` has no time-out. `TokenStillValid`
excepts a token whose answer took as long as the minute between its life and the time it
is kept (`Prompt`).

### DevicePlugin

One node. `pc` walks the plugin's `main` and `Plugin.Start` (detect, label, serve,
register, then watch) and the goroutine `watchKubelet` (woken, serve again, register
again); each step may fail as its code does: `klog.Fatalf` ends the process, an error
after a restart of the kubelet is logged. `sock` is whether the socket file leads to
the running server: a kubelet that starts empties the directory. `events` are the
creations of `kubelet.sock` the watcher has not delivered. `missed` is history: the
plugin runs, the kubelet is well, and nothing will make the plugin register again.
`Detect` is the lookup of the triple and then of the device tree; hardware is
`[probe, compatible, board]`, `board` being what it really is. An entry of `compatible` is
a sequence of pieces, so that `Matches` can test for a prefix as the code does; the boards
of the device tree are tried in order. The node may have any label when the plugin starts.

The kubelet stops and hangs when it likes. `kubelet-watchdog` runs with its timer:
`Healthy`, `CountsFailure`, `RateLimited` or `RestartKubelet`; its file of restarts is
`history`, kept as ages in runs of the timer, and `InLastHour` is the awk that prunes
it. `last` is history, the timer runs since each of the last `HourLimit` restarts, and
does not look at the file. `containerd-watchdog` is the same script with another probe.

## Runs

| Run | Question | Instance | Result |
|---|---|---|---|
| `jobs` | Can a row be wrong about GitHub, share a runner, be failed without reason, move back? Does a job that is over leave the demand, and one that started leave pending, with every webhook lost? | 2 jobs, 1 runner, 1 fault | holds |
| `jobs_stuck` | Is a job failed as stuck one that never ran? | 1 job, 1 runner | violated |
| `workers_two` | Do two schedulers work from stale listings safely, and share the slots? | 2 workers, 2 schedulers, cap 1, crash | holds |
| `workers_live` | Does a failed worker give its slot back? Do rows settle, and idle workers go, and no busy ones? | 1 worker, any 2 faults but kill and create | holds |
| `workers_busy` | Is a busy runner safe when the runner list fails? | 1 worker, 1 failed list | violated |
| `demand` | Are slots shared fairly and in order, and pools and caps respected? Has a job whose demand is met a runner? | 2 entities, 2 pools (2 slots and 1), cap 1, 3 jobs, 3 workers, any failures | holds |
| `scheduler_loop` | Is a wake-up ever lost? Is every job served without one, after the connection is lost, and beside a rate-limited entity? | 2 entities, 1 slot, 2 jobs, 1 failure | holds |
| `placement` | Do counted slots ever make pods compete for a node? | 2 boards (one with 2 vendors), 3 nodes, 3 pods (one from before providers), 2 schedulers, 1 lost lock, 1 node away | holds |
| `webhook` | Is an acknowledged job stored, once, where it belongs? Do bans hold in both environments? Do the audit rows agree? Does each table implement `JobLifecycle`? | 1 job of 10 kinds, 2 deliveries, 1 redelivery, 1 fault (not log) | holds |
| `github` | Are bodies and tokens the right ones and fresh enough, and is nothing sent earlier than by what a refusal took? | 2 installations, 3 tokens, 1 resource, caches of 2 | holds |
| `github_tokens` | Is a token kept for its time while there is room? | 2 installations, cache of 2 | violated |
| `device_plugin` | Is a slot mislabelled only by an entry of the device tree? Is it offered again after the kubelet restarts or hangs, unless a start was missed? Do the watchdog's restarts keep their distance and number? | 5 kinds of hardware, 3 faults | holds |

The bounds: two jobs or two workers are what it takes for one to disturb another
(a shared runner, a shared slot, a cap reached); two schedulers are what a rolling
deploy has. A second fault matters for liveness (fail, then fail to recover), so
the liveness runs allow two; for safety a fault of each kind is tried at each
step. `MaxDemand` bounds the number of active jobs a count may find; the counts
are arbitrary below it because webhooks change them at any time.

In `webhook` the kinds of job take each open route, two of single entities, a staging
entity, a banned one and labels no route has; the messages take each early return.
A failing write of the audit row (the fault `log`) is left out: it breaks
`AcceptedHasRow`, and nothing else.

In `github` a cache of two meets three tokens, so that both caches evict; times up to
three with a token kept for one of its three let a token expire and be asked for again,
let its answer come in the moment of issue, later, and too late to be `Prompt`, and let an
interval or a delay pass during a call.

In `device_plugin` three faults let the kubelet stop, start and stop again while the
plugin is still answering the first start. `Threshold`, `MinInterval`, `HourLimit` and
`Hour` are small. An hour is longer than `HourLimit` intervals, so that each of the two
limits of `RestartsSpaced` holds back restarts the other would let pass; with the script's
own values, 4 * 900 = 3600, the second never does. The hardware has a triple that is
listed, is found by its device tree with and without the system call, is unknown, or has
an entry that starts like another board's. In
`placement` the board of two vendors is asked for with a provider and has an old pod
without one, and the other board is asked for both ways. `scheduler_loop` and
`device_plugin` are liveness runs with their faults bounded in number.

The faults left out of `workers_live` are those for which the code keeps no
promise: `kill` and `create` leave a pod that nobody kills again. A killed pod on a
lost node keeps its slot too, so `FailedWorkerFreesSlot` excepts it.

### Fairness

`Jobs!FairSpec`: the scheduler's loop goes on (`for { runSchedulerIteration;
WaitForJob(PollInterval) }` never ends and each iteration ends) and time passes.
Nothing is assumed of GitHub or of webhooks. `Workers!FairSpec`: each scheduler's
loop goes on, time passes, the kubelet enforces a deadline, and the pod of a
runner that has finished ends. Faults and crashes have no fairness; they are
bounded in number, so in the end the loop runs undisturbed. `SchedulerLoop!FairLoop`:
the loop goes on and the deadline of `WaitForJob` comes (`context.WithTimeout`), jobs
finish, time passes, and GitHub does not pass a job over for ever (strong fairness of
`Takes` per job: GitHub, not this code, hands out jobs). A notification is never
assumed to arrive. With a cap and two pools a job may wait as long as its own entity's
other jobs use up the cap, so `JobServed` is checked for one pool.
`DevicePlugin!FairSpec`: the plugin's process goes on and is started again by the
DaemonSet, systemd starts the kubelet (`Restart=always`), and the timer fires. A kubelet that hangs
is not assumed to recover: the watchdog must end it.

### What the violated properties say

Each is listed under `findings` with the line that states the promise.

- A job is failed as stuck although a runner took it, because its status and its
  run's are two reads (`sync_jobs.go:59`, `:107`).
- A failed runner list reads as "no runners", which skips the delete GitHub
  would have refused, and a busy worker is killed.
- A refreshed token is evicted by its own older entry in the order.

Seen while modelling, without a run of its own:

- A crash between `ProvisionRunner` and the commit leaves a pod without a row,
  although `demand_match.go:200` says the name is persisted first; the pod's slot is
  counted all the same.
- `KillPod` is tried once, after the row is already terminal: with the fault `kill`
  `FailedWorkerFreesSlot` fails (`scheduler.md:115`).
- Phase 4 only sees targets that have an active worker in this iteration, so the
  registration of a target's last worker stays (`scheduler.md:108`, `:123`).
- ghfe's `main` returns as soon as `Shutdown` begins, so that handlers are killed
  although `ghfe.md:98` says they have 10s to drain.
- `MarkJobRunning` looks for the reason of an UPDATE that matched nothing in a second
  statement; a row inserted in between is reported as marked running, and an error of
  that statement as a job that does not exist.
- A row for a banned webhook or one without a label keeps no job id, although
  `installation-events.md:58` says the id is extracted from it.
- `recordEvent` only logs its error (`webhook.go:100`) and the handler answers 200, so a
  failed audit row stays missing: with the fault `log` `AcceptedHasRow` fails, although
  `webhook.go:18` promises one row per accepted path and `database.md:136` a 500 and a
  redelivery.
- `Retry-After` is counted from before the request that was refused (`github.go:419`), so
  the next one is sent too early by what GitHub took to refuse. `EarlyByCallAtMost` allows
  for that time; without it TLC finds the early request.
- `plugin.go:112` and `kubernetes.md` say the plugin registers again when the kubelet
  restarts. It registers before it watches (`plugin.go:57`): a kubelet that restarts in
  between is not seen, and the slot is gone until the next start. A watcher that cannot be
  set leaves the plugin blind, and a failed attempt is not repeated. `SlotComesBack`
  excepts what was `missed`; without that TLC finds the unseen start with a single fault.
- `detect.go:69` says the device tree is used for the Scaleway board alone, and that
  "anything unrecognized errors"; `kubernetes.md` that an unlisted triple is an error. The
  code tries it for three boards, also when the triple is not listed, and takes an entry
  that only begins with the board's string for that board (`detect.go:83`, `:125`).
  `MislabelledByEntryOnly` says that nothing else is mislabelled; TLC refutes the stronger
  `reg => label = hw.board` with the node whose name is longer. `zhihe-a210`, in the
  documented table of triples, is not in `socs`, and no route leads to it.
- The comment of `WaitForJob` says it drains so that the scheduler is not woken for what
  came while it was busy; it is, once, because it waits before it drains. `NoLostWakeUp`
  rests on that order. An iteration that fails uses up its wake-up all the same.
- Once the listening connection is lost `WaitForJob` fails at once and the loop turns
  without delay, for ever.
- The watchdogs' limit per hour never decides: restarts `MIN_INTERVAL` apart are never
  more than `HOUR_LIMIT` in an hour, as 4 * 900 = 3600.
- `ghfe.md:77` says capacity is narrowed to the board; the code uses the whole selector.

With the `conn` fault and two schedulers `CapacityRespected` fails, because a lost connection frees
the lock while the iteration still creates pods: one too many for each lost connection, as
`OvercommitBounded` proves. With two targets in one entity
`MetDemandHasRunner` fails, because demand is counted per entity and labels while
the runners of a personal account belong to one repository, so an idle runner of one
keeps a job of the other waiting until it is given up. It fails too for an entity that
uses a label set and a larger one, as the open routes `ubuntu-24.04-riscv` and
`ubuntu-24.04-riscv, rva23` are: GitHub gives a job of the smaller set to a runner of the
larger, which counts as a worker of its own labels only, and the job it was made for
counts as met until that runner ends. Jobs of the smaller set are not harmed
(`PureDemandMeansRunner`). Pending jobs are processed by
fair share first, not only FIFO by `created_at` as `scheduler.md` says.

## Proofs

TLAPS proves, for any number of jobs, runners, workers and schedulers:

- `JobsProofs`: `TypeCorrect`, `NeverAhead` (`RowBehindGitHub`),
  `RunnerHasOneJob` (`OneJobPerRunner`), `FailuresAreReported`
  (`FailedOnGitHubsWord`) and `Refinement` (`Jobs` implements `JobLifecycle`).
- `WorkersProofs`: `TypeCorrect`, `CompletedMeansOver`
  (`LiveWorkerNotCompleted`), `CapHolds` (`CapRespected`) and `RowsMoveForward`
  (`RowsForwardOnly`), under all kinds of fault; `CapacityHolds` (`CapacityRespected`)
  without lost connections, `OvercommitBounded` (at most one pod too many for each of
  them), and `NoBusyRunnerKilled` (`BusyRunnerNotKilled`) without a failed runner list.
- `DemandMatchProofs`: `DemandTypeCorrect`, `DemandFairShare`,
  `DemandFifoWithinEntity`, `DemandPoolCapacity`, `DemandEntityCap`,
  `DemandMetMeansRunner` (`MetDemandHasRunner`) and `PureDemandMeansRunner` (the same of
  a single job), for any number of entities, pools, jobs and workers.
- `SchedulerLoopProofs`: `WakeUpsKept` (`NoLostWakeUp`); `LoopImplementsDemandMatch` (each
  step of the loop is one of `DemandMatch` or changes only the count of failures);
  `LoopKeepsDemand` (`PoolCapacity`, `EntityCap`, `FairShare`, `FifoWithinEntity`) and
  `LoopKeepsRunners` (as `PureDemandMeansRunner`), in every state of the loop.
- `PlacementProofs`: `EveryPodHasItsNode` (`PodsHaveNodes`) and `CreationKeepsRoom`
  (`CreationLeavesRoom`), for any fleet, any selectors and any number of pods and
  schedulers.
- `WebhookProofs`: `TypeCorrect`, `AcknowledgedIsStored` (`AcknowledgedJobStored`),
  `StoredInItsPlace` (`StoredWhereItBelongs`), `BannedStaysOut` (`BannedReachesNeither`),
  `AcceptedIsRecorded` (`AcceptedHasRow`), `LogAgrees` (`LogAgreesWithTable`) and
  `TablesMoveForward` (`TablesForward`: both tables implement `JobLifecycle`), for any
  number of deliveries and attempts, in both environments, under every fault (but `log`,
  for `AcceptedHasRow`).
- `GHClientProofs`: `TypeCorrect`, `BodiesAreOwn` (`OwnBodies`), `BodiesAreFresh`
  (`NotStale`), `LimitsHonouredButForCall` (`EarlyByCallAtMost`), `TokensAreValid`
  (`TokenStillValid`) and `EvictionIsOrderly` (`EvictionOrder`), for any limits of the
  caches, lifetimes, header values and durations of the calls.
- `DevicePluginProofs`: `TypeCorrect`, `MislabelledOnlyThere` (`MislabelledByEntryOnly`) and
  `RestartsAreSpaced` (`RestartsSpaced`), for any hardware and any limits.

They assume `NamesAssumption` and `MaxFaultsAssumption` (`Null` and `Blank` are not
runners; a bound is a number) and `ConstantsAssumption` (jobs and workers are finite sets,
`NoOne` is not a worker or scheduler, bounds are numbers), and the likes of them in the
other modules; `PollsAssumption` adds that one poll interval is the longest. Some theorems
assume more, in their statement: `EveryPodHasItsNode` that a strict selector either has no
old pods of its own or as many nodes as there are old pods that may take them (the first
is what a deploy finds that introduces providers); `CapacityHolds` that no connection is
lost, and `NoBusyRunnerKilled` that no list of runners fails, because either fault breaks
the property; `DemandMetMeansRunner` that classes are `Unmixed`, the two theorems about a
single job that its own class is `Pure`: GitHub gives the runners made for it only jobs
that are counted with it, and they are registered where it is. That is so of every label
set beside which an organization uses no smaller one, and the code keeps no promise to the
others; `AcceptedIsRecorded` that the audit row's write does not fail. In `DevicePlugin`
`TriplesAssumption` says that a listed triple identifies its board, which `riscv_hwprobe`
decides; of what the device tree says nothing is assumed.

In `Jobs` the properties speak of the committed rows, but a commit publishes rows
written from answers read long before. The invariant therefore says of every row
the transaction has written what is said of committed rows (`TxOK`), of the
answer in hand that GitHub has since only moved forward (`AnswerTrue`), of every
webhook that what it reports was true and stays true (`HooksTrue`), and of GitHub
that a runner takes one job (`RunnersUnique`). Each action of GitHub is monotone,
so none of these facts expires; that is the whole argument.

In `Workers` the argument is about the lock. `LockHeld`: a scheduler whose
transaction is alive holds the lock, so there is at most one. `RowsOK`: an active
row has had a pod, and a completed one's pod is over. `AllSound`: in a live
transaction a row is as committed, or written and moved forward; a worker the
transaction sees completed has a pod that is over; what the stale listing shows as
over is still over, and a row that is active was active when the pods were listed;
the cap holds in the transaction's view too. `Private`: a name in
`reserveRunnerName`'s hands is in nobody else's view. These survive a scheduler
that has lost its transaction and goes on calling Kubernetes, because it can only
end pods, or create one under its own private name, and never writes a row.

That one pod is what `SlotsOK` is about. A stray is a name in the hands of a scheduler
that no longer holds the lock; a promised slot is an occupied one or a stray's. The pods
of a pool and the strays are at most `Slots` and the connections lost, and whoever holds
the lock has slots left only for what is not yet taken; of its strays a scheduler can
make one only, because the transaction that would insert the next row is dead.
`RunnersOK` is about the two lists, pods first and runners second: a runner is registered
before its pod is created, under a name never used again, so a worker that was seen with
a pod and is not in GitHub's list has left. All others are killed only after GitHub has
let go of the registration, which it refuses for a busy runner.

In `DemandMatch` one step, `Provision`, adds a pod and a row; all others leave as
many or fewer. `Room` says that the pods of the pool visited and the slots still to
give fit its nodes, whatever ends meanwhile; `QueueOfPool` that the queue holds jobs
of that pool only. Fairness is kept because the entity popped has no more pods than
any other that still waits, and order because the job popped is its entity's oldest.
`MetDemandHasRunner` is a count: if no worker counted for a pending job could take it, all
would be busy, each with a job of its own that counts with the pending one
(`BusyRunsItsJob`), so that there were fewer workers than jobs and the demand not met.

In `Placement` the waiting pods that may take a node of a selector `x` are compared with
the free nodes of `x`. Whoever holds the lock has counted them: `HolderHasRoom` says that
the slots it still has to give, and the pods that wait, fit the free nodes, which `Counts`
ensures because an old pod without a provider is counted by each selector it may still
fall to. `OthersHaveRoom` says it, without slots, of strict selectors nobody visits.
Binding uses a node and a waiting pod at once; a pod without a provider takes a node that
was set aside for it. `CreationLeavesRoom` follows for every mix of selectors: in a
matching of the waiting pods with nodes only the pods counted for `x` use nodes of `x`,
so one is left for the pod that is created.

In `Webhook` the invariant speaks of one handler at a time and of the pairs that share a
delivery. `Stage` ties a handler's place to what `Verdict` decides about its message;
`Promises` says what its code and the outcome it will log have already made true of the
table; `Linked` ties a handler of staging to the one in prod that waits for it;
`Recorded` says its audit row is there when it has answered. `TableOK` says that what the
table says of a job came from a message of that job, and `StoredOnce` that two attempts
cannot both have stored it. Rows are never deleted, so what a handler has been promised
stays true while others work. The refinement needs only that a row that is absent is
empty (`AbsentEmpty`), and that a step writes one row by one statement.

In `GHClient` a token expires in the cache `TokenTTL` after its answer (`TokensOK`), which
is before GitHub's end if the answer was `Prompt`; every cached entry is keyed by the
installation it was made for (`CacheOK`); and of every token GitHub's time to wait is over,
but for what the refusal took, or a cooldown is armed that ends exactly that much before it
(`LimitsOK`): a cooldown is dropped only when it has ended.
`OrderOK` is `EvictionOrder` said so that a step preserves it: no position of
`respOrder` repeats another, and it lists what is cached. `FreshOK` says of every entry
that it is quiet until no later than the longest interval from now and from the end of
its version: when a resource changes, its version ends now, so the first half becomes the
second.

In `SchedulerLoop` the invariant is small: mail is lost only by a drain, and after a drain
comes an iteration. What `DemandMatch` keeps the loop keeps, step by step, since
`failures` is read by nothing but its own bound.

In `DevicePlugin` a registered plugin is past `LabelNode`, so that the label is what
`Detect` gave (`Labelled`). For the watchdog, the file, counted from its end, has the ages
of the last restarts, and what it no longer has is an hour old (`FileAgrees`); its ages
are in order (`Ordered`), so that what awk removes is its beginning, and fewer
lines than `HOUR_LIMIT` mean that as many restarts ago is an hour ago.

Only model-checked: everything temporal (`OverJobLeavesDemand`,
`StartedJobLeavesPending`, `FailedWorkerFreesSlot`, `OverPodSettlesRow`,
`IdleWorkerGivenUp`, `JobServed`, `SlotComesBack`), which rests on fairness. What
`LabelRouting` computes is proved only as far as `Webhook` needs it (`RouteIsOwn`).

## Not modelled

Dashboards and the weekly report (read-only pages over the two tables), signatures, the
setup page and tracing (pure I/O), the fields kept of a payload (`payload.go`), failure
reports (`CollectPodFailureInfo` only builds a document), the scheduler's audit rows about
failed authentication, Ansible, images, scripts, website.

## Plan

1. A composition of `Jobs` and `Workers`, in which `jobRow` is `Jobs`' table, and of
   `Webhook` and `Jobs`, whose handler is `Webhook`'s seen from one table.
2. The weekly report's arithmetic (`weekly_usage.go`) against a reference definition.

Theorems still worth proving: once the compositions exist, that they implement
`JobLifecycle` and `DemandMatch`.
