# goserverless: TLA+ models, checks and proofs

goserverless is a single-node function platform: an HTTP API stores functions
in PostgreSQL, builds them, and runs each invocation inside a Docker container
("sandbox") taken from a pool. This directory models the parts of its backend
(`src/backend`, paths below are relative to it) where goroutines, failures and
ordering decide whether it is correct. Modules are written in plain TLA+, checked
with TLC on small instances, and the main safety results are proved with TLAPS
for every value of the constants.

## 1. Inventory

| Component | State | Operations | Interacts with | What is hard | What makes it correct |
|---|---|---|---|---|---|
| Sandbox pool, `internal/pool` | `p.slots` under `p.mu`; `Slot.State`, `LastUsed` under each slot's mutex; the containers | `Start`, `Acquire`, `Release`, `Discard`, `Drain`, `reapOnce` | invoker, Docker, `main` | two lock levels, check-then-act, removal outside the lock, timeouts | tracked slots have a container, containers are not dropped, one invocation per sandbox, everybody returns |
| Invoker, `internal/invoker` | `inv.inflight` under `inv.mu` | `Invoke`: `ReadyFunction`, `enter`, `Acquire`, agent call, `Release`/`Discard`, `leave` | pool, functions, gateway, scheduler | error paths, a limit that changes under running calls | the counter is exact, the limit holds, the pool is used as it expects |
| Functions service, `internal/service/function.go`, `internal/store` | tables `functions`, `function_versions`, `triggers` | `Create`, `Update`, `Deploy`, `Rollback`, `Delete`, `ReplaceTriggers`, `ReadyFunction` | builder, store, artifact directory | read a row, change the copy, write every column back | what is READY was built; recent versions are kept; what is stored was within the limits; secrets are masked in answers and nowhere else |
| Build pipeline, `internal/builder`, `internal/runtime` | `Pipeline.jobs` (64), the artifact directory | `Enqueue`, `buildOne`, `fail`, `NewVersion` | service, store, Docker builder | a long build over a stale copy, jobs that are names, a queue lost at restart | BUILDING ends; a READY version has its artifact; a failed build or a dead container does not stop the next |
| Scheduler, `internal/scheduler` | `last` of each trigger | `tick`, `fire` | triggers, invoker, recorder | slow ticks, triggers replaced under it, times kept in memory | each due time fires at most once, none is skipped but by a slow tick |
| Log hub, `internal/logstream` | `subs`, a channel of 64 each | `Publish`, `Subscribe`, cancel | recorder, log stream handler | full channels, cancel against publish | never sends on a closed channel, order kept |
| Recorder, `internal/service/recorder.go` | table `invocations`, counters in Redis | `Record` | gateway, scheduler, hub | best effort, function deleted meanwhile | a record belongs to a function that exists |
| Sandbox agent, `internal/agentrun`, `cmd/sandbox-agent` | one process per request | `Run` | invoker, over a Unix socket | the agent's deadline against the exit, a child that keeps the output open, the invoker's timeout | every invocation ends, and runs the code of its own function |
| Gateway, `internal/gateway` | none | `ServeHTTP` | invoker, recorder | a client that leaves at any time | an answer or an end for every request |
| Authentication, `internal/handler/auth.go`, `middleware.go`, `internal/store/session.go` | table `sessions` | `Login`, `Middleware`, `Logout`, `SweepSessions` | the management API | two clocks, requests in flight at a logout | a session lasts as promised, ends, and does not come back |
| HTTP handlers and router, `internal/handler`, `internal/httpx` | none | one handler for each route | middleware, functions service, hub | requests overlap | what is stored was validated |
| Validation, `internal/validate` | none | `CreateInput`, `Timeout`, `Triggers`, `CronExpr`, ... | functions service | trimmed for the check, stored untrimmed; checked before or after a default is filled in | limits agree with what the agent enforces |
| Docker client, `internal/dockerx` | containers | `CreateSandbox`, `RemoveContainer`, `RunBuilder` | pool, builder | each call can fail half way, or never return | nothing left behind |
| Runtimes, `internal/runtime` | the work and artifact directories | `Prepare`, `Build`, `InvokeHint` | builder, invoker | a Node build works in the directory that is being served | see build pipeline |
| Admin frontend, `src/frontend-admin` | the token in `localStorage`, the form of the editor | login, create, load, save | the management API | a form that is older than the row; a load or a save of several requests | saves what the API accepts |
| The rest: migration, login limiter, artifact manager, conversions (`metrics`, `timeutil`, `model/errors.go`), Redis route cache, configuration, logger, ids, health, templates | none that the core reads, see section 13 | | | | |

How they interact: the HTTP handlers run each request in a goroutine of its
own. Admin requests go to the functions service, which writes the tables and
enqueues builds; the one builder goroutine reads the tables, writes the artifact
directory and writes the tables. Gateway requests and cron ticks go to
`Invoker.Invoke`, which reads the tables once (`ReadyFunction`), passes its own
gate and takes a sandbox from the pool. The pool is also worked on by its reaper
and by `main` (pre-warming and draining). Nothing holds a database transaction
over two statements but `CreateFunction` and `ReplaceTriggers`.

## 2. Plan

| Step | Modules | Question | State |
|---|---|---|---|
| 1 | `SandboxPool`, abstract `SandboxLifecycle` | locks, races and failures of the pool | done, proved |
| 2 | `Invoker` over `SandboxPool` | the gate, and that it drives the pool correctly | done, proved |
| 3 | `Deployments`, abstract `VersionTable` | stale copies, trims, the builder, deletes | done, safety proved |
| 4 | `LogHub`, `Recorder` over `LogHub` | bounded channels, cancel against publish, functions that go while they are recorded | done, safety proved |
| 5 | `Scheduler` over `Recorder`, with the triggers table | late ticks, replaced triggers, restarts | done, safety proved |
| 6 | `Serving` over `Deployments` | what an invocation runs while its function is rebuilt, trimmed, deleted and created again; deadlines; build containers | done, safety proved |
| 7 | `Console` | sessions, settings, triggers and the clients that keep forms of them | done, safety proved |

Each model module declares its parameters as CONSTANTS with a named ASSUME,
`MC...` modules give the values TLC needs, `...Proofs` modules hold theorems.
No module uses a RECURSIVE operator.

## 3. SandboxPool

State: `slots` is the key set of `p.slots`; `state`, `runtime` and `stale` are the
fields of a `Slot` (`stale`: idle for longer than `PoolIdleTTL`); `container` is what
Docker has for it; `mu` is who holds `p.mu` over a scan. `pc`, `cur`, `want`, `todo`,
`then` are the locals of the goroutines: the callers, the reaper, and main.
`warmed` is the loop counter of `Start`. `contested` is history: slots that were hit
while `create` had them marked warm.

A step is one critical section or one call to Docker. `Acquire` is `Lock`, then `Skip`
or `Hit` and `Claim` for each slot of the map in any order (Go's map order), or
`Miss`; then `Ready` or `NotReady` after a hit, or `CreateSandbox`/`CreateFails`,
`Insert`, `MarkWarm`, `MarkBusy` for a cold start. Reading a slot's state and marking it are
two acquisitions of the slot's mutex, hence `Hit` and `Claim`. `Release` is
`ReleaseDead`/`MarkDead` or `ReleaseLive`/`Rewarm`, `discard` is `BeginDiscard`, `Delete`,
`Remove`. The reaper is `Reap` (victims chosen under `p.mu`) and then `SweepNext` with the steps of
`discard`, which do not look again. `Drain` is the same over all slots, and when
it is done the process has ended.

Abstracted: container and socket names, durations (a timeout may always fire), the
resource settings of a container. A step that only reads or writes what no other
goroutine can see is merged with its neighbour.

`SandboxLifecycle` is what the pool promises of each container: created once,
tracked at most once, forgotten before it is destroyed, never back. `PhaseOf` is
the refinement mapping.

| Run | Instance | Result |
|---|---|---|
| `pool_races` | 2 callers, reaper, main; 2 slots, 1 runtime, 1 pre-warmed, every removal succeeds (`invoker_gate` adds a failing one) | `TypeOK`, `TrackedSlotsRun`, `NoLeak`, `ExclusiveUnlessContested` hold |
| `pool_reap` | 2 callers, 1 slot | `ReapsOnlyIdle` violated, see findings |

The refinement and the liveness properties of the pool are checked where the pool
is driven by invocations, in the runs of section 4.

Two slots and two callers are enough for every pairwise race on one slot and for
one goroutine holding a slot while another scans past it; a slot ID is never
reused, so `Slot` also bounds the containers ever created, and with it gone the
callers get the error of a Docker that refuses. `MaxOrphans` bounds failed removals.

## 4. Invoker

State: `limit` is `max_concurrency` in the table, `inflight` is `inv.inflight`; `fn` and `lim`
are what `ReadyFunction` returned to a call. `highest` and `leaked` are history.
The module extends `SandboxPool`: `Enter` is `enter()` taken with the call of `Acquire`,
`Abort` and `Leave` are the two ways `Invoke` returns, and every step inside the pool is the
pool's own with the gate unchanged. `Update` is a PATCH of `max_concurrency`, with the
bounds of `validate.Concurrency`.

| Run | Instance | Result |
|---|---|---|
| `invoker_gate` | 2 calls, 1 function, limits 1 and 2, 1 slot, 1 pre-warmed, 1 orphan | `InvokerTypeOK`, `InflightIsExact`, `ConcurrencyBound` hold; `DrivesPool`: every behaviour is one of `PoolSpec`; `LifecycleSpec`: and one of `SandboxLifecycle` |
| `invocation_liveness` | 2 calls, 2 functions of different runtimes, 1 slot | `SlotComesBack`, `InvocationsReturn` hold |
| `invoker_leak` | 1 call, limit 1 | `RefusedOnlyWhenFull` violated, see findings |

`InflightIsExact` counts the invocations that returned without `leave()` in `leaked`: the counter
is exact up to the path the finding is about, and `leave()` never meets a zero, so its
test for zero hides nothing. Limits 1 and 2 let a limit fall below what is in progress.
`InvocationsReturn` speaks of the whole call, with the `Acquire` in it. What is true of the 429, in
place of the claim that `invoker_leak` refutes, is the theorem `InvokerGateIsExact` of section 11.

## 5. Deployments

State: the tables `row` and `ver` (status of each version; code, log and times are
left out), `artifact` (whose build the directory of a name and version holds, `None`
if it is missing or half written), `jobs` (a bag of names, since an `Enqueue` that finds the channel
full sends later from a goroutine of its own), and for each goroutine its `pc`, the
id it read (`target`), its `copy` of the row and the number `NextVersion` gave it.
`dropped` says that the version row the builder has read was trimmed: rows are
updated by id, so a new row with the same number is not the old one. `newest`,
`swept`, `faults` are history and bounds; an id is used once (`born`).

A step is one SQL statement or one operation on the directory:

| Code | Actions |
|---|---|
| `Create` (one transaction) | `Create` |
| `Update` | `Patch` (SELECT), `PatchWrite` (UPDATE of every column) |
| `Deploy`, `Rollback`, `NewVersion` | `Deploy`, `NextVersion`, `InsertVersion`, `PointRow`, `Refused` (of either), `TrimAndEnqueue` |
| `Delete` | `Delete`, `DeleteRow`/`DeleteRefused` (by name, versions cascade), `SweepFiles` |
| `buildOne`, `fail` | `Take`, `FindVersion`, `BuildFails` or `StartWrite` and `FinishWrite`, `SaveVersion`/`FailVersion`, `SaveRow` |
| errors of statements, cancelled requests | `Fault` |
| a process that dies | `Restart` |

`Rollback` deploys an old version's code as a new version, so it is a `Deploy`
here. Both runtimes are covered by one path: a Go build can fail without touching
the version's directory (`BuildFails`) and is then copied into it, a Node build
removes and fills the directory (`StartWrite`, `FinishWrite`).

| Run | Instance | Result |
|---|---|---|
| `deploy_overlap` | 1 function, 2 deploys at a time, 1 patch, builder; versions 0..2, 1 kept | `RecentVersionsKept`, `ReadyRowWasBuilt`, `BuildNotLost`, `BuildingEnds` hold; `VersionTableSpec`: the tables implement `VersionTable` |
| `deploy_blocks`, `deploy_lost` | small | violated, see findings |

`TypeOK` and `ReadyHasArtifact` are checked in the run `recreate` of section 6, whose
module extends this one.

`VersionTable` is what the service promises of the versions of each function: numbers are
issued in order, one is issued again only to a deploy that `Keep` others have
overtaken, only versions that far behind are trimmed, a build settles a version
that exists and never brings back a trimmed one, and an id that was deleted has no
version again. Its `top` and `used` are `newest` and `born` here.

The bounds: two deployers are two requests at a time, and each may deploy again.
With one version kept a second deploy already trims what another goroutine works
on; the real 10 makes that rarer, not different, and the theorems hold for any
number. Nobody deletes in this run, so an id is not closed in it; deletes are in `recreate`, and
`DeploymentsImplementVersionTable` has them too.
The runs may stop when the version numbers are used up, so deadlock is not checked.

The properties have exceptions, and each is needed (taking one away makes TLC find
a violation). `ReadyRowWasBuilt` excepts `Overtaken` versions: a deployer that is overtaken by
`Keep` others can insert a number again that was trimmed. `ReadyHasArtifact` excepts a version being
written again, and directories that a late `SweepFiles` removed under a function of the
same name. `BuildingEnds` excepts overtaken versions too, whose row the builder does not find,
and assumes that no PATCH has read the row while it was BUILDING (`PatchesWait`): such a PATCH
writes BUILDING back after the build has ended, and nobody will build again.
`BuildNotLost` is the safety half of `BuildingEnds`, under the same proviso and without faults: while a
function waits for its build, some deploy has still to queue a job, or one is queued for the
name, or the builder is at work on it, and if it has its version row still to find, that is the current one.
`ReadyHasArtifact` is stated without faults, since a builder that dies between
`StartWrite` and `SaveVersion` leaves a half-written directory behind.

## 6. Serving

`Serving` extends `Deployments` with invocations and with the container of a build.
State: `at`, `asked`, `seen` are the place of each invocation and the function and version
that `ReadyFunction` gave it; `runs` is whose build its process executes, which is
what lies in the directory of the name and the number at the moment the process
starts. `box` is the container of `RunBuilder` or its outcome, `runtime` the runtime of
each function.

| Code | Actions |
|---|---|
| `ReadyFunction` | `Invoke` (the row), `ReadVersion` (the version) |
| full gate, no sandbox, failed statement | `GiveUp` (`Invoker` and `SandboxPool` have the inside) |
| `agentrun.Run` | `StartProcess`, `Exit`, `Deadline` (the kill), `AnswerTimeout` |
| `callAgent`, `ServeHTTP` | `ClientTimeout`, `ClientGone`, `Leave` |
| `RunBuilder` | `CreateBox`, `StartBox`, `ExitBox`, and its removal in `Publish` and `CompileFails` |
| `Prepare`, `Build`, `copyFile` | `CompileFails`, `Publish` over `BuildFails` and `StartWrite` of `Deployments` |
| everything else of `Deployments` | `Elsewhere`, `Crash` |

A Go build has a container and is then copied over a file that a running process
makes impossible to write (`Busy`); a Node build has none and works in the directory
that is being served. A name may come back with the other runtime, and the directory of a
number then holds what builds of both have left: `Found` says which of them a process of a given
runtime can start, a Go binary or the script. `cmd.Run` waits for the output to be closed, hence
`Deadline` and `AnswerTimeout` are two steps and the second need not happen.

| Run | Instance | Result |
|---|---|---|
| `recreate` | 2 ids with one name, each of either runtime; 1 deploy, 1 delete at a time, 1 invocation; versions 0..1; one fault or restart anywhere | `TypeOK`, `ServingTypeOK`, `ReadyHasArtifact`, `NeverForeignCode`, `InvocationsEnd`, `BuilderReturns` hold |

A second id is enough for a name that is deleted and created again, one version besides the
draft for a rebuild of what is READY; invocations do not affect each other here but
through `Busy`, so the run has one. The theorems hold for any number of all of them.

`NeverForeignCode` is not obvious: the path that is run is made of the name and the
number, both of which the next function of the name uses again. It holds because
`Owned` does (section 11): the builder overwrites or removes what a READY version of a
live function needs only for that function. An invocation of a function that is
deleted meanwhile may run its successor's code, which is why the property excepts it.
`BuilderReturns` excepts the build container that never exits.

## 7. LogHub and Recorder

`LogHub`: `subs` is the key set of `h.subs`, `chan` the channel of each viewer, `hubMu` who
holds `h.mu`, `visit` the subscribers that a Publish has still to come to. `viewing`
is the place in `API.Logs`, and `got` what it has written to the browser. `sent` and
`missed` (the positions in `sent` of what was dropped) are history. An event is named after the call that publishes it: a call
publishes one.

`Publish` is `Lock`, a `Deliver` or `Drop` for each subscriber of the function (the
select with a default), and `Unlock`. The handler is `Subscribe`, any number of `Receive`,
`Leave` when the request is over, and cancel(): `Unsubscribe` under `h.mu`, then `Close`
without it. That order is what `NoSendOnClosed` depends on.
`StreamIsFaithful` says of each viewer that what it was given and what lies in its channel is,
in order, what was published of its function while it was subscribed, but for the
`missed` positions and those that the Publish under way has still to come to.

`Recorder` adds the end of an invocation: `status` of the functions (`other` is every
status that does not serve), `records` of table `invocations` (whose row it is,
and which function ran), and of each call its `pc`, the function that `ran`, the one
`Record` `found` by name, and whether there are logs. `Invoke` up to its result is one
step (`Run`; `Invoker` has its inside), then `LookUp` or `Skip`, `Insert` or `InsertFails`,
`Publish`, `OfferTo`, `Published`. `CreateFunction`, `SetStatus` and `DeleteFunction` are
what a call can see of the functions service.

| Run | Instance | Result |
|---|---|---|
| `records_and_logs` | 2 calls, 2 viewers with channels of 1, 2 functions with one name | `RecTypeOK`, `NoSendOnClosed`, `StreamIsFaithful`, `OnlySlowViewersMiss`, `RecordsBelong`, `RecordEnds` hold |

Two events fill a channel of one, so that each order of a drop, a receive and a
cancel happens; with two viewers one of them can leave or stop reading while the
other is served. Two functions of one name are the deleted one and its successor.
Every call ends and viewers go away for good, so deadlock is not checked.

`RecordsBelong` allows one thing that the code does: an invocation of a deleted function is
filed under a new function of the same name, since `Record` looks the name up again.

## 8. Scheduler

State: table `trig` (the cron entry under each id), `ticker` (the channel of `time.Ticker`, which
holds one tick), the goroutine's `at`, `now` and `batch` (what `ListEnabledCron` returned), and
`last`, the map `s.last`. `owner` is the function in the trigger that a `fire()` was started
for. `answered`, `twice`, `late` are history. Time is counted in seconds, `Advance` is a
second, and 0 is Go's zero time. `Parsed` and `Due` stand for the cron library: the
expressions that it parses, and the instants an expression is due at after a given one, of which
`sched.Next` returns the first, or the zero time if there is none. For a calendar
expression these are the instants that it matches; for `@every` they depend on the given one.

| Code | Actions |
|---|---|
| `time.NewTicker`, its dropped ticks | `Advance` |
| `Start`, `tick` | `Tick`, `ListEnabledCron`/`ListFails`, then `Ignore`, `Meet`, `NotYet` or `Fire` for each trigger, `TickDone` |
| `fire` | `GetFunctionByID`, `Invoke`, and the steps of `Recorder` |
| `ReplaceTriggers` (one transaction) | `Put` |
| functions service | `Undeploy` (a delete takes the triggers with it), `Redeploy` |
| a process that dies and starts again | `Restart` |

The triggers of one tick are taken in any order. A `Put` gives each trigger of a function
an expression and a flag of its own.

| Run | Instance | Result |
|---|---|---|
| `cron` | 1 trigger id; an expression for every instant, one for two seconds after the last firing, one that `tick` cannot parse; 4 instants, 2 functions with one name, 1 followed firing, 1 failed query or restart | `CronTypeOK`, `FiresOncePerDueTime`, `AtMostOneLateFiring`, `FiringRunsItsFunction`, `DueTimesFire` hold |

The clock stands still at `MaxTime` while ticks go on, so that what is due then is
still fired. The first tick only meets a trigger, so the expression for every instant has up to
three due times after it, and one firing can be late for several. `Followed` is
the due time that `DueTimesFire` follows: the last, which ticks before it can delay and
firings before it can move. Firings
overlap without bound in the code; `Firing` bounds the ones that are followed to their end, and
further ones are counted and let go. Triggers do not affect each other but through the
time a tick takes, which the model leaves open anyway, so the run has one.

`FiringRunsItsFunction` speaks of the function that runs and of the one that `Record` has found and
files its row for. `DueTimesFire` excepts a due time that is no longer one (`Rebased`): the
delay of an `@every` begins again when a tick that has read the expression the trigger had
before fires it early. What is proved of `Due` holds for every schedule, the empty one included.

What the code does, and the properties leave open: an expression that never matches
(February 30th parses) fires at every tick, because no time is before the zero time, and each
firing is for new instants, so that `FiresOncePerDueTime` does not object;
a trigger that comes back under its old id is measured from the time that `s.last`
still has for it; due times while the process is down are not made up for; and an
expression with a blank around a descriptor passes validation, which trims, and is then
ignored by `tick`, which does not (`Ignore`; how such texts are stored is in `Console`). No line
of the repository says otherwise of any of them.

## 9. Console

One function, seen through the management API. State: `sessions` is the table
(`expires_at` of each token), `held` the token in `localStorage`, which all tabs share;
`at`, `op`, `tok` are the request of each client (on its way, admitted, in an `Update`
between its SELECT and its UPDATE); `row` is the row, reduced to the timeout and one
secret of the environment, `copy` what an `Update` has read and changed; `cron` is the
expression of the cron trigger; `form` is the editor in each tab. `promised`,
`revoked`, `cronBy`, `shown`, `masked` are history. A secret is named after the client
that typed it, or is the mask.

| Code | Actions |
|---|---|
| `Login`, `PutSession`; "log out" in the frontend | `Login`; `Forget` (it only forgets the token) |
| `Middleware`, `GetSession` | `Check` |
| `Logout`, `DeleteSession` | `Logout` |
| the ticker in `main`, `SweepSessions` | `SweepSome`, `Sweep` |
| `Create` with `CreateInput` | `Create` |
| `Update` with its validators | `Update` (SELECT, checks), `UpdateFunction` (UPDATE, then `decorate`) |
| `Get`, `Triggers`, `ReplaceTriggers` | `Get`, `Triggers`, `ReplaceTriggers` |
| `load`, `saveMeta` of the editor | `Open`, `Save`, and `AnswerThen` for the requests that follow |
| dashboard, scripts with a token | `Send` |
| errors, crashes, lost requests | `Fail` |

`now` is the clock of the server; `NOW()` in the sweep is that of the database, up to
`Drift` away. Memory, concurrency, the rest of the environment and the other
validators are one boolean of a request: whether the rest of it is valid.
The requests of one tab follow each other; that the frontend sends some at the same
time does not matter to the rows, which other clients write at any time.

| Run | Instance | Result |
|---|---|---|
| `console` | 1 tab, 1 script; 2 logins, sessions of 1 second on clocks 1 apart, 4 instants, 4 requests that a client begins (each followed by those of the frontend); timeouts 0, 30, 301; expressions that parse, parse once trimmed, and do not | `ConsoleTypeOK`, `LogoutIsFinal`, `SessionsLast`, `SecretsHidden`, `MaskComesFromForms`, `StoredCronFires`, `SessionsEnd` hold; `ConsoleTypeOK` includes that a row's timeout is one that the agent takes as it is |

Two clients are enough for a PATCH between the two statements of an `Update` or
between a load and a save; two tokens for a sweep that must spare one; four
requests for create, load, save and a logout or a PATCH of the other client. Requests and
time run out, so deadlock is not checked.

What the code does, and the properties leave open or say exactly: the editor saves
the environment it was shown, so saving anything stores the mask in place of the
secrets, and the function is then run with the mask (`MaskComesFromForms` says that this is
the only way); a load that fails half way leaves a form without the cron
expression, and saving that removes the trigger; a script can store a descriptor
with blanks around it, which `tick` then ignores (`StoredCronFires`); a logout whose
statement fails, or whose token came in the query, is answered ok and leaves the
session until it expires; two `Update`s at the same time keep one. No line of the
repository says otherwise of any of them.

## 10. Fairness

- `PoolFairSpec`, `Invoker!FairSpec`: strong fairness of each goroutine's steps. A goroutine that is
  runnable is run, and `sync.Mutex` hands over to a waiter that starves, so somebody
  who wants `p.mu` again and again gets it: this is why it is strong. Waits have
  timeouts in the code: 800ms and 3s for readiness, the agent call's deadline, 8s for a removal.
  Nothing is assumed of arrivals: nobody has to call, no limit has to change, nothing has to be reaped.
- `Deployments!FairSpec`: the steps without faults, weak fairness of each handler that has begun and of the builder, and
  strong fairness of taking a job of each name, since the channel is FIFO. It also says that a
  build container comes to an end, which the code does not enforce: `RunBuilder` waits without a
  deadline of its own. `BuildingEnds` does not hold with faults
  (section 13); they are in the run `recreate`, through `Serving`.
- `Serving!FairSSpec`: weak fairness of what an invocation does next (a statement returns or the
  request gives up, the agent's deadline and the invoker's timeout fire) and of the builder. A process
  need not exit, a child need not close its output, a build container need not end.
- `RecFairSpec`: weak fairness of `Record`, which the invoking goroutine runs to its end. A
  viewer may stop reading for ever, which is the point of `RecordEnds`. Weak is enough
  though calls contend for `h.mu`: each publishes once.
- `CronFairSpec`: time passes, and the scheduler goroutine goes on; a query that it waits for
  returns triggers or an error, the latter finitely often (`MaxFaults`). Nothing is assumed of
  `fire()` or of clients.
- `Console!FairSpec`: time passes, and the goroutine of `main` sweeps: it comes round every ten
  minutes, and what one sweep that fails leaves, the next takes. Nothing is assumed of clients.

## 11. What is proved

For any constants that satisfy the ASSUMEs of the modules:

| Theorem | Statement | Argument |
|---|---|---|
| `PoolTypeCorrect` | `PoolSpec => []TypeOK` | inductive as it stands |
| `PoolTracksRunning`, `PoolNeverLeaks` | `[]TrackedSlotsRun`, `[]NoLeak` | one invariant `Tracking` for both: it also says where each goroutine stands with the container in its hands, because `Delete` keeps the first only if nobody inserts again, and `Insert` only if nobody has removed |
| `PoolExclusive` | `[]ExclusiveUnlessContested` | `Exclusion`: at most one goroutine is between claiming a slot and giving it up, whose state is then not warm unless contested, and the holder of `p.mu` is the only one that claims |
| `PoolReleasesMu`, `PoolStrandsNoSlot` | `[]MuInScan`, `[]NoSlotStranded`: `p.mu` is held only in a scan; a slot in the map that is not warm is in the hands of a goroutine that makes it warm or takes it out | `Returning`, inductive with `RemoveUntracked` of `Tracking`: a goroutine lets go of a slot when it has marked it warm, or when nobody can find it. What `SlotComesBack` and `InvocationsReturn` need of the code; only the progress of goroutines is left to fairness |
| `PoolImplementsLifecycle` | `PoolSpec => LifecycleSpec` | each step maps to a step or a stutter of the abstract machine; lemma `PhaseMove` says that one container changes phase at a time |
| `InvokerTypeCorrect`, `InvokerDrivesPool` | the gate's types; `Spec => PoolSpec` | `GateStep`: each step is a pool step or leaves the pool alone |
| `InvokerKeepsPoolSafe` | the pool's invariants under invocations | from `InvokerDrivesPool` and the pool's theorems |
| `InvokerExact` | `[]InflightIsExact` | cardinality of `InProgress` before and after each step |
| `InvokerBounded` | `[]ConcurrencyBound` | from `InflightIsExact`, `inflight[f] <= highest[f]` and `lim[c] <= highest` |
| `InvokerGateIsExact` | `Spec => GateIsExact`: a call is let in only below its limit, and answered 429 only at it, counting what is in progress and what was leaked | from `InflightIsExact`; so the 429 says the truth of a function that has leaked nothing |
| `DeploymentsTypeCorrect` | `Spec => []TypeOK` | split into the locals of the goroutines and the tables |
| `DeploymentsKeepRecent` | `[]RecentVersionsKept` | `Numbering`: no number in the table exceeds `newest`, a deployer that is about to insert is at most one ahead; a trimmed version has `Keep` newer ones, so by counting (`TrimKeepsRecent`) it is that far behind |
| `DeploymentsImplementVersionTable` | `Spec => VersionTableSpec`, with faults and restarts | step by step from `Numbering`: a number that is inserted is one more than the largest, or was trimmed and hence overtaken (`InsertIssues`); what is trimmed is overtaken (`TrimTrims`); `dropped` keeps the builder from a row that was trimmed (`BuildSettles`) |
| `DeploymentsTrimToKeep` | `Spec => TrimsTo`: a trim that succeeds leaves `Keep` versions at most | fewer than `Keep` others lie above the smallest version left (`TrimLeavesKeep`); that there is a smallest (`SmallestOf`) comes from the strict subsets of a finite set being well-founded |
| `DeploymentsReadyWasBuilt` | `[]ReadyRowWasBuilt` | `Snapshots`: each row, and each copy of it that is still to be written, is `Honest`: if it says READY, its version was settled. `SettledStays`: no step unsettles a version, because a number is inserted again only when it is overtaken, by `RecentVersionsKept` |
| `DeploymentsOweBuilds` | `Init /\ [][Handling \/ Build]_vars => BuildNotLost` | `BuildOwed` is inductive with `Numbering` and `Snapshots`: a deploy that sets BUILDING has still to queue a job (`HandlerOwes`); the builder gives a function up only after writing its row, or when the version it looks for is overtaken, for a recent one is in the table (`CurrentFound`); and a copy that says BUILDING is written back by nobody, by `PatchesWait` |
| `ReadyVersionsHaveArtifacts` | `Spec => []ReadyHasArtifact` | `Owned`: versions go with their function, so when a job begins no live namesake has a READY version that the builder could harm (`NamesakeFirst`); behind a READY version lies its own function's build or nothing (`FilesOwn`), and without a fault the builder marks READY only what it has written whole (`SavesWhole`) |
| `ServingImplementsDeployments`, `ServingTypeCorrect` | `SSpec => Spec`; types of invocations and of the build container | each step is a step of `Deployments` or leaves its variables alone, so what is proved of `Spec` there, `VersionTableSpec` included, holds under invocations |
| `ServingRunsOwnCode` | `SSpec => []NeverForeignCode` | `WaitsForOwn`: while its function lives, an invocation that waits is `Undisturbed` by builds of a namesake, from `Owned`, and a function that is deleted stays so |
| `HubNeverSendsOnClosed`, `HubDropsOnlyWhenFull` | `HubSpec => []NoSendOnClosed`, `[]OnlySlowViewersMiss` | `Subscriptions`: who is in `h.subs` has not closed, and who is being visited is in `h.subs`; `Backlog` counts what was sent to a viewer |
| `HubStreamsFaithfully`, `RecorderStreamsFaithfully`, `CronStreamsFaithfully` | `HubSpec`, `RecSpec` and `CronSpec => []StreamIsFaithful` | the stream is `sent` at the positions that a strictly increasing function picks (`Picks`); each step extends, or leaves alone, the function of the state before: a delivery appends a position, a drop leaves it out, a receive moves the border between what was got and the channel. A restart closes every stream with what it has delivered (`RestartKeepsHub`) |
| `RecorderDrivesHub`, `RecorderTypeCorrect` | `RecSpec => HubSpec`; types | each step is a hub step or leaves the hub alone, so the theorems above about `HubSpec` hold of the recorder |
| `RecorderRecordsBelong`, `CronRecordsBelong` | `RecSpec` and `CronSpec => []RecordsBelong` | `RowInv`: one live function per name, and what a call has found in place of what it ran has the same name, the latter being deleted (`Mistaken`) |
| `CronTypeCorrect`, `CronFiresOncePerDueTime` | types; `[]FiresOncePerDueTime` | `Remembered`: what was answered for is no later than `last`, or, when a restart has lost that, than the tick at which the trigger will be met again; `TicksInOrder` carries it over |
| `CronDueTimesStay` | `CronSpec => DueTimesStay`: no instant that comes after the time `s.last` has for a trigger is passed over, but by a restart | only `Fire` moves `last` of a met trigger, and answers for all it passes (`LastSteps`, `Answers`); the safety half of `DueTimesFire` |
| `CronAtMostOneLateFiring` | `[]AtMostOneLateFiring` | `Lateness`: a trigger that fired late is not in the batch any more, and only enabled ones enter it |
| `CronFiringRunsItsFunction` | `[]FiringRunsItsFunction`: who runs, and for whom the record is filed | `Owners` with `RowInv`: who is named did exist, and a name has one live function; `RecordingFinds`: what a call has found is of the name of what it ran |
| `ConsoleTypeCorrect` | `Spec => []ConsoleTypeOK` | `ConsoleInv`, the invariant of the whole module, whose parts different actions disturb; the limits of the timeout from `Copies` |
| `LogoutEndsSessions`, `SessionsKeepTheirPromise` | `[]LogoutIsFinal`, `[]SessionsLast` | `SessionInv` with `Drawn`: a token in use has been drawn, and a login draws a new one |
| `SessionsNeverComeBack` | `Spec => SessionsNeverReturn`: a session that has ended stays so, and its token is not given out again | `SessionSteps`: only a login writes a session that is not there, under a token above all drawn ones |
| `AnswersAreMasked`, `MaskOnlyFromForms` | `[]SecretsHidden`, `[]MaskComesFromForms` | `Copies`: what is required of the row holds of every copy that will replace it |
| `SavedCronFires` | `[]StoredCronFires` | `Trim` is idempotent (`ConsoleAssumption`), and the editor sends what is trimmed |

`FS_...` facts of the library are used for cardinalities, those of `SequenceTheorems` for
lengths. The lemmas of `RecorderProofs` about single actions are used again in
`SchedulerProofs`, where a restart takes the place of a step of the hub.

Every invariant and every action property that a run checks is a theorem. Only model-checked are
the liveness properties (`SlotComesBack`, `InvocationsReturn`, `BuildingEnds`, `RecordEnds`,
`DueTimesFire`, `InvocationsEnd`, `BuilderReturns`, `SessionsEnd`), as TLAPS does not prove properties
under fairness. For four of them the safety half is proved: `PoolStrandsNoSlot`, `PoolReleasesMu`,
`DeploymentsOweBuilds` and `CronDueTimesStay`. `StreamIsFaithful` is stated with positions
(`Picks`) and not with a recursive filter of the sequence, because an induction over
sequences takes an operator, which no prover here can instantiate.

## 12. Findings

- `pool_reap`: the reaper can remove the sandbox of an invocation that claimed it
  after the victims were chosen (`pool.go:236-247`).
- `invoker_leak`: an `Acquire` that fails leaves `inflight` incremented (`invoker.go:70-74`);
  after `max_concurrency` of these the function answers 429 until a restart.
- `deploy_blocks`: a deploy makes a function unavailable until its build ends (`pipeline.go:160-162`,
  `service/function.go:324`), while the admin page says that it does not block calls.
- `deploy_lost`: the end of a build writes back the row it read at its beginning; a deploy
  in between is undone and its version is never built (`pipeline.go:127`). That write, and that of
  `NewVersion` (`:162`), undo in the same way settings that a PATCH has saved since.

## 13. What is not modelled

- Migration (`store.go`): one batch of statements before anything else runs, under an advisory lock
  of PostgreSQL.
- `internal/limiter` and `internal/artifact`: nothing but their tests uses them. `ReapOrphans`,
  `ImagePullSilent` and `KeepAlive` are called nowhere.
- Conversions (`metrics`, `timeutil`, `model/errors.go`, prefix stripping): pure functions of numbers and
  texts that no other state depends on, with unit tests of their own.
- Handlers that only read: `List`, `Versions`, `Metrics`, `Invocations`, `Overview`, `Templates`, `Me`.
- Builder containers after a crash: `Serving` forgets the container with the process, as the code does.
- Several server processes over one database: the code has one pool and one builder per
  process and no leases; `docker-compose.yml` runs one.
- The process beyond `Drain`: containers inserted after its snapshot survive it, and
  `ReapOrphans` is never called at start.
- Faults under liveness: after a restart, or an error before `Enqueue`, a function stays
  BUILDING until somebody deploys again. That follows from the queue being a channel
  (`pipeline.go:36`), no line of the repository claims otherwise, and no run is needed to see it.
- Contents: code, environment, logs, event bodies. A payload never decides a step of the core.
- The Redis route keys: they are written and deleted, and read nowhere.
