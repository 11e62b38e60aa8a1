# Verification of gobench

TLA+ models of the parts of gobench that carry its own logic, the TLC runs that
check them on small instances and the TLAPS proofs that extend the main results
to every instance. `PROJECT.json` maps every definition to the lines it models.

    tlc -workers 2 -config MCMasterSafety.cfg MCMaster     # any run: see "Runs"
    tlapm MasterProofs.tla                                 # any *Proofs module

## 1. Inventory

gobench is one server process (the *master*) with an SQLite database, an HTTP
API and a dashboard. A user submits an *application* (a Go scenario). The
scheduler compiles it and hands it to the local *agent*, which starts an
*executor* process. The executor runs the scenario's *virtual users*; their
protocol *clients* notify metrics, which the executor sends back through the
agent's socket to the master's tables.

| Component | State | Operations | Interacts with |
|---|---|---|---|
| Master scheduler and application API (`master/master.go`, `web/application.go`, `main.go`) | application table, `m.job`, contexts | `schedule`/`run`/`setStatus`, `NewApplication`, `CancelApplication`, `DeleteApplication`, `CleanupRunningApps`, boot, SIGINT | HTTP handlers and the scheduler goroutine share the table and `m.job`; calls the agent |
| Agent and executor process (`agent/agent.go`, `executor/rpc_server.go`, `executor/executor.go`, `generator.go`) | the child process, its socket, the job's context | `RunJob`, `waitForReady`; `Serve`, `Start`, `Terminate`, `run` | gRPC in both directions; the kill goroutine of `exec.CommandContext` |
| Metric registration and collection (`executor/client.go`, `executor/executor.go`, `master/metriclog.go`, `agent/metriclog.go`) | `units` map, go-metrics registry, tables of groups, graphs, metrics, values | `Setup`, `Notify`, `logScaled`, `FindCreate*`, `Counter`/`Gauge`/`Histogram` | every virtual user and the load collector call it; RPCs to the master |
| Protocol clients (`clients/mqtt`, `clients/nats`, `clients/http`) | a connection kept by a library, counters | `Connect`, `Publish`, `Subscribe`, `Unsubscribe`, `Disconnect`, `do` | callbacks on goroutines of the library; `Setup`, `Notify` |
| Virtual users (`executor/executor.go` `runScen`, `dis/dis.go`) | wait group | start each user after a random pause, wait for all | the select of `Executor.run` |
| System load collector (`executor/systemload.go`) | previous CPU and network readings | one round per second | `Setup`, `Notify` |
| HTTP API: applications, queries, login, tags (`web/*.go`) | metric, value and tag tables, tokens | routes with a token check, time windows of values, tags | master, dashboard |
| Dashboard: application pages and session (`web/ui/gobench-ui/src`: `redux/application/sagas.js`, `redux/user/sagas.js`, `services`, `pages/application`, `layouts`, `router.js`) | one Redux store, the token in the local storage, the page | LIST, DETAIL, CREATE, CANCEL, DELETE, LOGIN, LOGOUT, navigation, reload | HTTP API, with a timeout of 10 s; sagas share the store |
| Dashboard: charts (`pages/application/dashboard.js`, `chart/*.js`, `services/application/index.js`) | `groups`, `graphs`, `graphMetrics`, `metricDatas` | first fetch of each level when its component is mounted, three kinds of polling | HTTP API; the executor registers and stores while the page asks |
| Dashboard: theme (`pages/themes`, `pages/dashboard`, `components`, settings, menu) | colours, titles | presentation | - |
| Database layer, RPC stubs (`ent`, `pb`) | generated | transactions, RPCs | all |
| Options, logger, mail | - | flags, log files | - |

What is hard here, and what makes each part correct:

* **Master.** The scheduler and the handlers check and write rows in separate
  transactions and share `m.job` without a lock; the process may end between
  any two writes. Correct means: a scenario is executed at most once, the table
  tells what is really running, finished means executed, nobody starves.
* **Agent and executor.** Two processes and three goroutines; a cancel or a
  crash may come at any point of the handshake. Correct means: success is only
  reported for a scenario that ran to its end, and a cancel ends the process.
* **Metrics.** Every virtual user registers the same tree through
  find-then-create RPCs on tables without unique indexes. Correct means: one row
  per node, reported metrics have rows, what is notified is stored.
* **Clients.** Connections come and go under a running call and are counted by
  callbacks. Correct means: each event is counted once, every call returns as far as
  it has a limit.
* **Dashboard.** A saga waits for its request while the user, the timers and
  other sagas go on; answers come in any order, late, on another page or not at
  all, and several sagas write back data they read before they asked. Correct
  means: a chart shows each sample once, in order and without gaps, and keeps up;
  the detail page settles on its own application; pages are open to authorized
  users only; the spinner that all sagas share does not stay.

The hazards, each at its line, are in `PROJECT.json`.

## 2. Modules

| Module | Models | Used by |
|---|---|---|
| `AppLifecycle` | abstract specification of the application table | refined by `Master` |
| `Master` | scheduler, handlers, boot, exit, panic, restart | `MCMaster`, `MasterProofs` |
| `RunJobSpec` | abstract specification of `RunJob`, as `Master` uses it | refined by `Agent` |
| `Agent` | `RunJob`, the kill goroutine, the executor process, its virtual users | runs directly, `AgentProofs` |
| `Metrics` | `Setup`, `Notify`, `logScaled`, `FindCreate*` | `MCMetrics`, `MetricsProofs` |
| `Clients` | MQTT, NATS and HTTP clients | `MCClients`, `ClientsProofs` |
| `Charts` | the dashboard tab of one application | runs directly, `ChartsProofs` |
| `Dashboard` | list, create, detail and login pages | `MCDashboard`, `DashboardProofs` |
| `MC*` | finite sets for TLC, symmetry | the runs |
| `*Proofs` | theorems and lemmas | TLAPS |

Each module keeps its mutants, that is, plausible wrong versions of an action,
next to the action. They are not part of the specification; replacing the action
by its mutant makes TLC refute the property the mutant is listed with.

### Master

One step is one database transaction or one unsynchronised access to `m.job`:
those are the points where goroutines interleave. `spc` is the position of the
scheduler goroutine in `schedule()`/`run()`; `cur` and `err` are its locals.
`job`, `appNil` and `ctxBy` describe `m.job`: its application, whether a failed
`Save` has set `m.job.app` to nil (`setStatus` assigns the result before it looks
at the error), and on whose behalf its context was cancelled. `cpc`/`capp` are the
positions and path parameters of the HTTP requests. `runs`, `acked` and `unsaved`
are history variables. A panic in the scheduler goroutine ends the process
(phase `panicked`); in a handler it is turned into a response by chi's Recoverer.
`RunJob` is two steps, `RunJobStart` and `RunJobReturn`; `Agent` has the detail.

Abstractions: creation order stands for `created_at` (equal timestamps are not
distinguished); `NewApplication` is one insert; scenario text, log files and the
timestamps of a row are left out; a failing transaction has no effect.

### AppLifecycle

What can happen to the rows of the table: ids are not reused, one application is
worked on at a time (`working`) and was pending when it was taken, its scenario is
executed at most once and never for a row that is still pending, `finished` needs an
execution, and a row whose job is over is never taken again. `Master` implements it
with `status <- db`, `allocated <- 1..nextId-1`, `executed <- {x : runs[x] > 0}`,
`working <- cur`.

It specifies what the code does, and the code does more than its comments promise.
The moves the comments exclude are actions of their own, so that the refinement does
not hide them: `LateCancel` (a finished or failed row becomes `cancel`, against
`master.go:206`), `LateRemove` (an active row is deleted, against `master.go:183`;
refuted by a run, section 6), `Interrupt` (a restart writes `cancel`, against
`master.go:124`). `Provision` and `Activate` accept a row cancelled since it was taken
(`CancelledIsNotStarted`, section 6).

### Agent

`pc` is the position in `RunJob`; `proc[j]` is the executor process of job `j`.
`scen[j]`, `left[j]`, `active[j]` and `wg[j]` are `runScen`: its position, the virtual
users not launched yet, those launched and not returned, and the wait group, to
which all users are added before the first is launched. The classes of users are
counted together, and the Poisson pause before a launch is any delay. `killer[j]` says that the goroutine of
`exec.CommandContext` still watches it. `base` separates the jobs of earlier
master processes, whose agent socket (named after the pid) is gone. The copying of
the executor's output is left out. The 5 s timer of `waitForReady` may have fired
at any `Poll`, but not inside `grpc.Dial`, which the code calls without a context.

### RunJobSpec

Master treats a call of `RunJob` as two steps: the executor is started or not
(`RunJobStart`), and the call returns with or without an error (`RunJobReturn`).
`RunJobSpec` says what that relies on: no executor after a cancel and never two for
a job, users only begin during a call, nil only when no user is left, an error only
after a cancel or a fault. `Agent` implements it (`ImplementsRunJob`), with `pc`
mapped to idle, called (before `cmd.Start`) and executing. This is how the two
modules compose.

### Metrics

`Plan[c]` is the tree caller `c` passes to `Setup`, in the order of the loops.
`Find` and `Create` are the two transactions of `FindCreateGroup`,
`FindCreateGraph` and `FindCreateMetric` in the master, `mu` is `executorInst.mu`.
`Notify` takes any value of `Value`, positive or not (the clients take connections off
with -1): a counter adds it, a gauge (`Gauge`) is set to it. Histograms take the same
path and are left out. The load collector is one more caller.
`ConcurrentMapWrite` is the Go runtime's reaction to `logScaledOnCue` walking the
shared map while `Setup` writes to it.

### Clients

`link[c]` is the connection as the library keeps it, `ups[c]`/`losses[c]` the
callbacks due, `token[c]` the library's answer to the call the virtual user is in.
`total[c]` is the share of `c` in `...connection.current_total`; the executor's
counter is the sum over clients, and adding to it is atomic. The libraries (paho,
nats.go) are external: modelled from the handlers the code installs and the calls
it makes. nats.go runs its callbacks in order; the model lets them run in any
order, which cannot be told apart in a sum. Latencies and reconnect counters are
left out.

### Charts

The page of one application with one group and one graph. `srv`, `rows` and `n` are
the server: the status, how many rows of the tree the executor has registered, the
samples stored per metric. `page` and `collapsed` are the components; `shown`,
`groups`, `graphs`, `gm` and `data` are `detail.status`, `groups`, `graphs`,
`graphMetrics` and `metricDatas` of the store. `calls` are the sagas in flight. A
request is served at some moment between dispatch and answer: a call keeps what the
server had at dispatch (`lo`) and the answer picks a state from there on, which
covers every order of service and of answers.
What a render dispatches (`Effects`) is computed from the state before and after it,
as React's dependency lists do. A failed request is `undefined` after the
interceptor: the simple sagas ignore it, the two that wait for several requests
store the caught `Error` as data (`Error`), and the next poll on it throws and ends
all sagas (`dead`). `Undefined` is the record a poll leaves when it has no older one
and gets no sample; drawing it throws, and the page is blank.

Abstractions: samples are numbered in the order of their times; the clock of the
browser selects any window for the first fetch of a running application; the
drawing, `makeChartDataByTimeRange` and the four series of a histogram are left out.

### Dashboard

`rows`, `used` and `valid` are the server (status per application, ids handed out,
token not expired); `path`, `token`, `authorized` the session; `list`, `detail` and
`loading` the parts of the store the pages share. The sagas of the charts and the log
tabs (`Chart`, `CHART`) are one kind of call: they set and clear the same `loading`,
and a failed one may leave an `Error` as the data of some chart (`broken`). A poll of
such a chart throws after `loading(true)` (`PollThrows`) and ends the root saga with
all sagas in flight (`dead`): from then on nothing dispatched is taken, and of the
requests under way only the interceptor sees the answer (`Orphan`), until a reload.
Which chart and which samples is the matter of `Charts`; here any failure may break
one and any success repair it. A call in `calls` is a saga after
its first `put`: `old` is the list it has read (CANCEL, DELETE), `redirect` what the
detail page adds to DELETE, `reply` and `got` the answer. `Serve` is the token check
and the handler in one step, `Change` stands for the scheduler and other users,
`Lose` for a lost request or answer or the 10 s timeout, with or without an effect
on the server. The rest of each saga is one step (its `put`s and `history.push`).
The statuses finished, cancel and error are one (`over`): buttons and handlers treat
them alike, but for a cancel of a cancelled application, which the model lets
succeed or fail.

Abstractions: the names and scenarios of applications, clone data, `total`, paging
(the server ignores it) and what the log tabs show are left out; the buttons may be used while
the spinner shows (an open confirmation, or the Enter key in a form, is not disabled).

## 3. Runs

| Run | Instance | Shows |
|---|---|---|
| `master_safety` | 2 applications, 2 concurrent requests, I/O faults, exits, panics, restarts; symmetry on requests | `AtMostOnce`, `RunningIsLive`, `FinishedWasRun`, `JobIsCurrent`, the inductive `ScheduleInv`, `ImplementsLifecycle` |
| `master_queue` | 2 applications, 1 request, no I/O faults, fairness | `PendingIsServed` |
| `agent` | 2 jobs of 2 virtual users, executor and master deaths, fairness | `OkMeansOver`, `LivingIsWatched`, `EndedScenarioIsOk`, `ImplementsRunJob`, `CancelEndsConnectedJob`, `CancelledExecutorEnds` |
| `metrics` | 3 callers (2 with the same client), 5 nodes, a counter and a gauge, 2 notifications of 1 or -1, failing RPCs, retries, fairness | `NoDuplicateRows`, `UnitsHaveRows`, `SetupInv`, `SetupMakesTitlesKnown`, `NotifiedIsStored`, `SetupEnds` |
| `clients` | 1 client per protocol, 4 calls, 2 losses, fairness | `ConnectionsBalance`, `RequestsAreCounted`, `CallsReturn` |
| `charts` | 1 metric, 3 samples, 2 sagas in flight, failing requests, fairness | `ChartIsWindow`, `ChartKeepsUp`, `StartIsNoticed` |
| `dashboard` | 2 applications, 2 sagas in flight, 1 create/cancel/delete, 1 change by others or expiry | `IdleIsNotLoading`, `DetailSettles` |
| `cancelled_is_not_started`, `cancels_the_same_app`, `deletes_only_inactive`, `no_panic`, `agent_cancel_ends_job` | the smallest instance | refuted; section 6 |

Each module's `TypeOK` is checked by one of its passing runs.

**Why the bounds are enough.** In `Master` the interesting conflicts are between
the scheduler's current application, the next one, and requests that checked the
state too early: two applications and two requests give every pair. The theorems
remove the bound for the safety properties. In `Agent` a job meets at most the
leftovers of an earlier one: two jobs. In `Metrics` two callers with the same tree
race, a third one has its own; two notifications bring a counter back to its stored
value or below it. Clients share nothing but counters: one per
protocol. In `Charts` an error needs two overlapping calls (the first fetch and a
poll, or two polls) and enough samples to repeat, lose or swap one; three samples are
one for the first fetch and two for polls that follow it. The metrics of
a graph are polled together and do not influence each other, and the theorem on
`ChartIsWindow` removes all bounds. In `Dashboard` one stale call and one fresh one, and one change between
reading the list and writing it back, give every conflict; the two initial tables
have an application that waits or runs, and an id to create. The bounds
(`MaxApps`, `MaxJobs`, `MaxNotes`, `MaxCalls`, `MaxDrops`, `MaxSamples`, `MaxClicks`,
`MaxChanges`) are in the guards of the actions that consume them; in `Metrics` and `Clients` they,
and the exit of the executor, end the behaviours, hence `CHECK_DEADLOCK FALSE`.

## 4. Fairness

* `Master`: weak fairness of each step of the scheduler goroutine, of
  `CleanupRunningApps` and of started handlers (the Go scheduler runs every
  runnable goroutine; `go build` ends). `RunJobReturn` is fair too: an assumption
  that scenarios are finite and that `RunJob` comes back. The refuted
  `CancelEndsJob` shows where the code does not guarantee the latter.
  `PendingIsServed` is conditional on the master staying up: nobody has to
  restart it. Requests, exits and faults are not fair.
* `Agent`: weak fairness of `RunJob`'s steps, the kill goroutine and the
  executor's own steps. Nothing makes a scenario end, an executor die or a user
  cancel.
* `Metrics`: strong fairness of the steps of `Setup` (Go's `sync.Mutex` hands itself
  to a starving waiter; the other steps are the caller's own), of the ticker, and of
  a successful `Send` per metric: the RPCs for one metric do not fail at every tick.
  An RPC that hangs is outside the model. Notifications are not fair.
* `Clients`: weak fairness of returning (timers fire). The broker owes no
  acknowledgement, not even of a CONNECT, and a lost connection need not come back.
  `CallsReturn` therefore excepts an MQTT `Connect` that waits for the CONNACK
  (`AwaitsConnack`): the loop at `mqtt.go:327` has no limit.
* `Charts`: the timers fire, the request that has waited longest comes to an end
  (by the timeout of axios if not by an answer), and requests for the detail do not
  all fail. The fairness of two timers is strong because `MaxCalls`, a bound of the
  model and not of the code, can disable them for a while. The user, the server's
  progress and the other answers are not fair.
* `Dashboard`: none. `DetailSettles` names what it needs: the user stays on the page
  and its requests go on being answered.

## 5. Proofs

All for every value of the constants that satisfies the named `ASSUME`.

**`MasterProofs`** (`MasterAssumption`: at least one application, `IOFaults` a
Boolean). `AtMostOnce` is not inductive: nothing in it prevents the scheduler
from being about to start an application that already ran. `ScheduleInv` adds
what `run()` relies on: a row still pending was never executed; ids at or above
`nextId` are unused; at each position of the scheduler the row of its application
is in one of the statuses `RowOfCur` lists (the expected one, or what a late
cancel or delete left); and that application has not been executed before
`RunJobStart`, once after. `MasterInvariant` proves
`[](TypeOK /\ ScheduleInv)` (`MasterTypes` is its first half); `ExecutedAtMostOnce`, `FinishedWasExecuted` and
`RunningRowsAreLive` each add one step lemma to it. `JobIsCurrent` is about the
pointer that `cancel` follows and nobody resets; it needs that the application of
`m.job` was created before (`JobInv`), or a new row could be taken for it:
`JobIsCurrentOrOver`. `MasterImplementsLifecycle` shows that every step is a step of
`AppLifecycle` or a stutter; that an idle scheduler works on nothing (`spc = "idle" =>
cur = NoApp`, in `ScheduleInv`) is what makes `working` a single application.

**`MetricsProofs`** (`MetricsAssumption`: trees are finite sequences of nodes).
`SetupInv`: whoever is between the first RPC and the aggregation holds the mutex,
hence what its find saw still holds at its create, and the titles in its local map
have rows. From it `MetricsTypes`, `SetupHoldsLock`, `RowsAreUnique` and
`ReportedMetricsExist`. `SetupMakesTitlesKnown` speaks of Setups that returned, so
`KnownInv` adds what happens before: while none has failed, a registered title is in
`units` or in the local map of the one Setup under way (`Held`), and a Setup has
registered the titles it has passed (`Passed`); a title skipped as a duplicate was
therefore merged by somebody else. `TitlesAreKnown` follows.

**`ClientsProofs`** (`ClientsAssumption`: a client has one protocol).
`ClientsInv` is the balance itself, with two facts: only a client without a
connection completes a connect, and NATS clients have no unmatched Disconnect.
From it `ClientsTypes`, `ConnectionsAreCounted` and `NatsTotalIsExact`.
`RequestsAreCounted` is inductive with the types, given that only the return of a
request touches the HTTP counters (`OthersLeaveHttp`): `HttpRequestsAreCounted`.

**`AgentProofs`** (`AgentAssumption`: at least one job). `OkMeansOver` depends on
where `RunJob` stands: `PcInv` says that a call past the Start RPC has seen its
scenario end; `UsersInv` that the wait group of an active scenario counts exactly the
users not launched and not returned, and that only a process whose `run()` came back
is `done`; `FreshInv` that a job not yet handed out has no trace. For the refinement
`FailInv` adds that the current executor is killed or gives up only after a cancel or
a fault. `LivingIsWatched` is inductive given `FreshInv`: when the master dies its jobs
become those of an earlier process, and no job above them has an executor yet.
Results: `AgentTypes`, `OkMeansAllReturned`, `LivingExecutorsAreWatched`,
`AgentImplementsRunJob`.

**`ChartsProofs`** (`ChartsAssumption`: at least one metric, room for two sagas).
`ChartIsWindow` is not inductive, since a poll in flight carries a copy of older
data: `ChartsInv` says the same of the data in every poll that waits, for the number
of samples stored now. Appending what comes after the copy's last sample then keeps a
window a window, whatever has happened to the store meanwhile. Results:
`ChartsTypes`, `ChartsAreWindows`.

**`DashboardProofs`** (`DashboardAssumption`: any set of applications whose ids are no
page names, any first tables). The types alone are not inductive: an
answer is stored in the list or in the detail, so what a saga carries matters.
`GoodCall` says of every saga in flight that it names an application if it asks about
one, that the tables it has read or was answered with name only ids the server handed
out, and that a successful answer has the row asked for; `SessionInv` types the
session, and adds that a token was obtained by a login, for which there was room among
the sagas. `IdleIsNotLoading` is strengthened to `loading => Busy \/ dead`: while the
spinner shows, some call in the sequence is not a login, or the root saga has ended; a saga that ends takes the spinner
away, and a reload shows it only if the page it mounts asks for something. The lemmas on `Without` (removing one
of the calls) are stated once. Results: `DashboardTypes`, `SpinnerEnds`.

**Only model-checked:** the liveness properties (`PendingIsServed`,
`EndedScenarioIsOk`, `CancelEndsConnectedJob`, `CancelledExecutorEnds`, `SetupEnds`,
`NotifiedIsStored`, `CallsReturn`, `ChartKeepsUp`, `StartIsNoticed`, `DetailSettles`),
which are out of the prover's reach. Every invariant and refinement that a passing run checks is also a theorem.

## 6. What the code does not do

Refuted by a run (quotations are in `PROJECT.json`, `findings`):

1. `CancelledIsNotStarted`: a successful cancel of a pending application can be
   overtaken by the scheduler; the scenario is then started.
2. `CancelsTheSameApp`: `m.cancel` compares one `m.job` and cancels another.
3. `DeletesOnlyInactive`: `DeleteApplication` checks and deletes in two transactions;
   a row the scheduler picked in between is deleted while its job goes on.
4. `NoPanic`: a cancel before the job executes makes `setStatus` fail; the
   deferred function of `run()` dereferences the nil `m.job.app`, the master ends.
5. `CancelEndsJob`: a cancel before the executor listens leaves `RunJob` in
   `grpc.Dial` for ever, and with it the queue.

Seen while modelling, and part of the models, without a run:

* `m.job` is never reset (what it can then name is `JobIsCurrent`): cancelling the last finished application answers with
  success, where `master.go:206` promises `ErrAppIsFinished`.
* A cancel that read the row before the job ended overwrites its outcome: `finished`
  or `error` becomes `cancel` (`LateCancel` of `AppLifecycle`, `master.go:206`).
* `CleanupRunningApps` writes `cancel`; `master.go:124` says `error`. It runs
  after the scheduler was started and may close a row of the new session, whose job
  goes on; `RunningIsLive` speaks of rows that say running and does not see it.
* If the last write of `run()` fails, the row says running until the next start
  (`unsaved`, which `RunningIsLive` excepts).
* An executor whose master died is not shut down (`executor.go:150` assumes so), and
  `LivingIsWatched` says nothing of it.
* After a `Setup` that failed, the titles it registered stay unknown to `Notify`
  for the rest of the run (`SetupMakesTitlesKnown` is conditional on that).
* MQTT calls that time out are counted like acknowledged ones.
* An MQTT `Connect` waits for the CONNACK without a limit and without its context:
  a silent broker holds the virtual user for ever.
* A row left `provisioning` by a master that went down is not closed at the next
  start, although `main.go:85` says "cleanup the previous running session": the
  scheduler never picks it up, it cannot be deleted, only a cancel ends it.
* There is no last round of the metric log: what was notified since the last tick is
  never stored (`client.go:120`: "later save to database").
* A Disconnect of an MQTT client that is not connected takes one off
  `current_total` (graph "Total Connections"), which may become negative.
* `schedule()` defers the close of each job's log file in an endless loop.

* The dashboard's CANCEL and DELETE write back a list read before the request: a row
  deleted or created meanwhile reappears or disappears until the next LIST, and
  nothing but the user asks for one.
* `destroyApi` returns `{}` whatever the server said: a deletion that was refused, or
  lost on the way, takes the row off the list.
* A late DETAIL answer shows another application under this page's address, buttons
  included, until the next poll; once that application is running there is none.
* LOGOUT leaves the token in the local storage: a reload is logged in again.
* A failed request during the first fetch or a poll of a chart stores an `Error` as
  its data; the next poll throws inside the saga and no saga runs until a reload.
  The poll has switched the spinner on before: it stays, over every page.
* A CREATE or DELETE that ends late takes the user off the page he has gone to.
* A poll that overtakes the first fetch of a metric without samples leaves an
  `undefined` record, and drawing it blanks the page.
* Graphs and metrics are fetched once. If the executor is still registering them,
  the page never shows the rest, against `src/README.md:109` ("From the dashboard, you
  will see the live result"): TLC finds such a behaviour of `Charts` without a single
  failed request.
* The status is not polled while it is `running`: the page does not notice the end.

## 7. Not modelled

* The load collector: reads counters of the operating system; towards the rest it
  is a caller of `Setup` and `Notify`.
* Tags and the log files: the dashboard has no caller for the tag handlers, and the
  log tabs only show a text (both share one `logs` entry of the store); their sagas are
  among the calls of `Dashboard`.
* Most of `web/ui`. Of its JavaScript about 4000 lines are reachable from
  `index.js`; `pages/themes`, `pages/dashboard` and `components/kit` (some 26000
  lines) are demonstration pages of the UI template that `router.js` never mounts.
  They hold no state of gobench and no operation on it. Of the reachable part the
  sagas, services, reducers, effects and handlers are modelled; the rest is markup,
  translations, theme settings and the service worker. The share of the repository's
  JavaScript that can be mapped is small for that reason.
* `makeChartDataByTimeRange` and `apex-chart.js`: how points are cut and drawn.
* `ent` and `pb`: generated; their transactions and RPCs are the atomic steps.
* Options, logger, mail: I/O, and the mail service has no caller.

## 8. Plan

Done: `AppLifecycle`, `Master`, `RunJobSpec`, `Agent` with its virtual users,
`Metrics`, `Clients`, `Charts`, `Dashboard`, their runs, and the proofs of section 5.
In order of importance, what is left:

1. `makeChartDataByTimeRange` as an operator against a reference definition; which
   text the log tabs show when their answers cross.
2. Tags (check, then create, against a unique index; deletion with edges).
3. The load collector's differences when an interface is reset.
