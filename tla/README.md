# A verification project for vibecheck

vibecheck decides. A caller sends state and trusted facts together with the
name of a policy (or a policy of its own); the server settles the request on
the facts when a pre-rule matches, and otherwise asks a model provider typed
questions and applies the policy's rules to the answers. Every decision is
recorded and can be fetched, replayed by an idempotency key and labelled by a
reviewer, until retention removes it.

This directory holds TLA+ modules for the parts of the program where steps of
several actors meet and for its policy language, TLC configurations that check
them on small instances, and TLAPS proofs of safety properties for every
instance. `PROJECT.json` maps
each definition to the lines it models.

## Inventory

| Part (under `src/`) | State | Operations | Hard because | Correct when |
|---|---|---|---|---|
| `internal/pkg/core/evaluations` | four tables in SQLite or PostgreSQL: `policy_snapshots`, `evaluations`, `idempotency_records`, `evaluation_feedback` | `Create`, `Get`, `List`, `SubmitFeedback` | a call is a sequence of separate statements around a slow, billed provider call; calls of several processes, failures and retention interleave | every answer is durable, a key has one owner, replay is faithful, facts come before the model |
| `services/vibecheck-server/retention.go` | the clock it read, a batch of IDs | one pass per tick: keys, find, feedback, evaluations | four statements, each may fail, one bounded batch per pass, rows change in between | nothing young goes, everything old goes in the end |
| `internal/pkg/policy`, `core/policies` | the loaded set, fixed between starts | load, compile, hash, resolve, pre-rules, answer contract, decision rules | first match wins over typed values; evaluation has no error path and rests on dozens of checks made elsewhere; Go maps have no order; edits keep name and version | what compiles can be evaluated and asked; the same hash always gives the same outcome; a record explains itself |
| `pkg/gotypesafe`, `internal/pkg/provider` | concurrency slots, one retry series per call | `Evaluate` | slots, attempts, back-off, `Retry-After`, an elapsed ceiling and cancellation interact | attempts, time and slots stay bounded; only transient failures are retried; a slot always comes back |
| `internal/pkg/service-manager` | services by dependency group, readiness, once-only stop | `Run`, `Stop` | start, failure and stop race | dependencies first; every started service is stopped |
| `internal/app`, `pkg/runner`, `cmd` | signal, cancel function, timeout | `Run`, `Stop`, shutdown | a signal at any moment, nested timeouts | the process ends, and cleanly if it can |
| `services/vibecheck-server` (listeners, drain) | readiness flag, two HTTP servers, retention goroutine, database | `Run`, drain, `Stop` | in-flight calls against shutdown and the closing of the database | readiness fails first, calls finish, the database closes last |
| `internal/pkg/http`, `internal/pkg/mcp` | limiter buckets, in-flight gauges | bind, limit, authenticate, decode, one core call, map the result; pages of the list | shared buckets and gauges over every way out of a call; failures that come back as results; a table that changes between pages | the limit holds, an answer fits its result, gauges return to zero, a walk misses nothing |
| `config`, `secrets`, `metrics`, `db`, generated code | none that is read back | | | |

How they interact: a transport calls one core method per request, on a
goroutine of its own; the core calls the policy set (immutable), the provider
(which limits concurrency across all calls) and the database; the retention
loop of each process shares nothing with the calls but the tables; the service
manager starts and stops the server service, and the runner starts and stops
the application.

What is hard to test in all this is listed under `hazards` in `PROJECT.json`,
each at the line where it bites, with the properties that cover it.

## Modules

| Module | What it is |
|---|---|
| `Evaluations` | the core: concurrent `Create` and `SubmitFeedback` calls and retention loops over the four tables; its properties |
| `AuditLog` | abstract: what the evaluations table promises |
| `EvaluationClaims` | statements of docs and comments that the code does not keep |
| `EvaluationInvariants` | the inductive invariants the proofs use |
| `MCEvaluations` | constants for TLC |
| `EvaluationsProofs` | type correctness, the inductive invariant and the safety properties that follow from it |
| `IdempotencyProofs` | what a key protects |
| `AuditLogProofs` | `Evaluations` implements `AuditLog` |
| `TypesafeClient` | the provider's client: slots, retry series, time, cancellation; its properties and the invariant of a series |
| `MCTypesafeClient` | constants for TLC |
| `TypesafeClientProofs` | its safety properties |
| `ServiceManager` | the supervisor: order, startup, failure, retries and the once-only stop of the services; its properties, and one claim of its README that fails |
| `ServiceManagerInvariants` | the inductive invariants the proofs use |
| `MCServiceManager` | constants for TLC |
| `ServiceManagerProofs` | its safety properties |
| `Lifecycle` | the process: runner, application, supervisor with its one service, listeners, drain, database; its properties, and one claim of a comment that fails |
| `MCLifecycle` | constants for TLC |
| `LifecycleProofs` | its inductive invariant and safety properties |
| `PolicyCompiler` | the policy language as operators: what compiles, the compiled and the canonical form, evaluation, the contracts of facts and answers |
| `PolicyEngine` | extends it with state: start, resolution, facts, the provider's reply as the adapter decodes it, the decision; its properties |
| `MCPolicyEngine` | documents, facts and replies for TLC |
| `PolicyEngineProofs` | its inductive invariant and its properties, for documents of every size |
| `Transport` | REST and MCP: chain, limiter, handlers, answers, pages; its properties |
| `MCTransport` | loads for TLC |
| `TransportProofs` | its inductive invariant and its properties |

`Evaluations` takes the verdict of a policy on a request (`Phase`) and the end
of a provider call for given; `PolicyEngine` and `TypesafeClient` are what
happens inside. `Transport` takes the results of core calls for given, as
`Evaluations` and `PolicyEngine` produce them. `Lifecycle` reduces the
supervisor to one service; `ServiceManager` is the supervisor itself.

### Evaluations: state and steps

One step is one database statement or transaction, or one end of the provider
call. What the code does in memory in between is part of the step before or
after it.

| Variable | In the code |
|---|---|
| `snapshots`, `evaluations`, `idempotency`, `feedback` | the tables of `db/models/models.go`. A row keeps the columns some property reads: ID, policy hash, kind, status, execution path, creation time. Outcome, rule, tokens, durations and sealed input are functions of those and of the request |
| `loaded` | the `policy.Set` of the running servers |
| `pc`, `input`, `lookup`, `record` | a `Create` call: the next statement, its `CreateInput` with the policy resolved, the record its replay read, the row it builds or replays |
| `billed` | the calls that called the provider |
| `pass` | a retention loop: the next statement, the `now` of `cleanup`, the IDs found |
| `submission` | a `SubmitFeedback` call |
| `prior`, `journal` | history, read by properties only: which calls had been answered when a call arrived, and what `persist` committed |

| Action | Code |
|---|---|
| `Receive`, `Refuse` | `resolvePolicy`, `validateRequestShape`, `canonicalRequestHash` |
| `ReplayMiss`, `ReplayFound`, `ReplayGet` | the two queries of `replay`, with its expiry and hash checks |
| `EnsureSnapshot` | `ensureSnapshot` |
| `Decide` | `decide` up to the provider call: `newRecord`, `ValidateFacts`, `applyPreRules`, `askProvider` |
| `ProviderAnswers`, `ProviderFails` | the rest of `decide`: rules, `recordProviderFailure`, `recordProtocolFailure` |
| `Persist`, `PersistDuplicate` | the transaction of `persist`: it commits, or the primary key of `idempotency_records` refuses it |
| `Respond` | `Create` returns |
| `Interrupt` | the caller goes away (`context.Canceled` is not recorded), a statement fails, or the process dies. Also after the commit, where the client may not learn of it |
| `SubmitFeedback`, `CreateFeedback`, `InterruptFeedback` | the read and the insert of `SubmitFeedback` |
| `StartPass` ... `DeleteEvaluations`, `InterruptPass` | `runRetention`, `cleanup`, `expireIdempotency`, `expireEvaluations`, statement by statement |
| `Redeploy` | a start with an edited policy directory. `loaded` may change between any two steps, so two processes of a rolling deployment with different sets are covered |

A crash needs no action: it is an interruption of each call and of the pass of
the process, and everything else is in the tables.

Abstractions. A policy stands for its hash; `RefOf` gives the name and version
it declares, which an edit keeps. A body stands for state, facts and metadata,
and `Phase` for what a policy makes of its facts. The canonical hash is the
pair of policy and body: SHA-256 over sorted JSON is taken to be injective. An
idempotency key stands for its hash. `newID` is taken not to repeat. Neither
SQLite's nor PostgreSQL's GORM driver renders `LIMIT` on a `DELETE`
(`vendor/github.com/glebarez/sqlite`, `vendor/gorm.io/driver/postgres`), so
`expireIdempotency` removes every expired record although it asks for a batch;
the model does what the statement does. The clocks of several processes are
taken to agree.

### AuditLog

`log`, `retired` and `now`: a decision enters once under a new ID, is never
edited, leaves only when its window is over, and never comes back. The mapping
takes the table for the log and what was committed and is no longer there for
the retired.

### TypesafeClient: state and steps

`Evaluations` takes the provider call for one step that answers or fails.
`TypesafeClient` is what happens inside that step.

| State | In the code |
|---|---|
| `slots` | the number of tokens in the channel `c.slots` |
| `at`, `kind`, `number` | where a call of `Evaluate` or `Models` is, and its attempt |
| `elapsed` | `time.Since(startedAt)` |
| `timer` | what is left of `http.Client.Timeout` in an attempt, of `time.NewTimer(delay)` in a pause |
| `cancelled`, `sent` | the caller's context; whether the attempt's request went out |
| `failure` | `lastFailure` |
| `owed` | history: what is left of the pause the server asked for |

| Action | Code |
|---|---|
| `Begin` | `Evaluate`, `Models` up to `acquireSlot`. A call without an API key, or whose request `buildRequest` refuses, returns at once and is no step |
| `acquireSlot`, `AbandonSlot` | the two cases of its select |
| `Succeed`, `Fail` | `evaluateAttempt` and what the loop makes of it: `GiveUp`, `ExhaustBudget` or `BackOff` (`shouldRetry`, `waitBeforeRetry`) |
| `Wake`, `CancelBackoff` | the two cases of the select in `waitBeforeRetry`; with both ready either may be picked |
| `Cancel`, `Tick` | the caller, and time |

Every return after `acquireSlot` takes the token back, as the deferred release
does. Time is per call and in ticks. `Lag` bounds how late a goroutine notices
its timer, from the last check of the ceiling on; the bounds on a series are
stated with it. `Wrap` is the wrap-around of 64-bit durations with a range
`2 * HalfRange`, and `Overflowed` what the platform makes of a float that does
not fit one. The timeout of an exchange is retryable while headers are awaited
and not once the body is read, as in the code. What a call returns is not kept,
only how it came to return: no property reads it.

### ServiceManager: state and steps

One step is what a goroutine does between two points where another one can
notice: `Run`, a goroutine per launched service, and any number of calls of
`Stop`, of which one is the deferred call of `Run` itself.

| State | In the code |
|---|---|
| `graph` | `Dependencies()` of each service; names outside the process are skipped |
| `run`, `result`, `next` | where `Run` and `runServiceGroups` are, and what `Run` returns |
| `cancelSet`, `parentDone`, `cancelled` | `s.cancel`, the context given to `Run`, the run context |
| `inDegree`, `queue`, `groups` | the locals of `topoSort` |
| `listed` | the length of `s.startGroups`, always a prefix of `groups` |
| `service`, `attempt`, `ready` | each service's goroutine, its failed attempts, its `Ready` channel |
| `errCh`, `failure` | the channel of capacity 1 and the failure signal |
| `stop`, `once`, `lock` | the `Stop` calls, `stopOnce`, `startGroupsMu` |
| `level`, `stopping`, `stopped` | the walk over `startGroups`; services whose `Stop` runs, or was called |

| Action | Code |
|---|---|
| `InstantiateFails`, `SetCancel` | `Run` up to the deferred calls |
| `buildDepGraph`, `topoSort`, `RefuseOrder` | `resolveOrderContext`, one round of the sort per step, and its errors |
| `LockGroups`, `CheckFailure`, `LaunchGroup`, `waitGroupReady`, `EndStartup` | `runServiceGroups` |
| `SelectDone`, `SelectError`, `Return` | the select at the end of `Run` (either case when both are ready), the deferred calls |
| `BecomeReady`, `ExitCleanly`, `FailQuietly`, `FailAndRetry`, `Retry`, `CancelDelay`, `FailForGood`, `handleServiceError`, `trigger` | `runService`, `waitRetryDelay`, `handleServiceError`: the send and the signal are two steps |
| `StopCancel`, `EnterOnce`, `SkipOnce`, `LockStop`, `stopGroup`, `FinishStop` | `Stop` and `sync.Once`: a second caller waits for the first |
| `stopServiceWithTimeout` | a service's `Stop` returns, or its time is up |
| `CancelParent` | the caller of `Run` |

A panic is an error (`safeRun`). Errors are not told apart: no property reads
which one `Run` returns. A manager is run once, as the process does; what is
registered and enabled before is the constant `Services`. When a delay is not
positive, `waitRetryDelay` does not look at the context; `Retry` needs no
context either way.

### Lifecycle: state and steps

| State | In the code |
|---|---|
| `runner`, `shutdownErr`, `result` | `appRunner.run` and what it returns |
| `signal`, `signalled` | the channel of capacity 1 |
| `app`, `appErr`, `cancelSet`, `cancelled` | `App.Run`, `a.cancel`, its context |
| `stop`, `once` | the two calls of `App.Stop` (the deferred one and the runner's) and `stopOnce` |
| `manager`, `managerErr`, `managerCancelled`, `managerOnce`, `failure` | `ServiceManager.Run` and `Stop` for one service |
| `service`, `stopped`, `runErr`, `drainErr` | `VibecheckServer.Run` |
| `database`, `retention`, `listener`, `errs`, `shuttingDown` | what it owns |
| `request`, `routing`, `probeLeft` | outside: exchanges on either listener, a load balancer that probes readiness |
| `graceLeft`, `drainLeft`, `runnerLeft` | the timers |

One action per blocking point: `waitForShutdown`, `shutdownCompleted`,
`handleShutdownTimeout` (runner); `appSetsCancel`, `appLaunches`, `appSelects`,
`appReturns` (`App.Run` and its three deferred calls); `stopCancels`,
`stopServices`, `stopWaits`, `stopAgain` (`App.Stop`); `managerRefuses` to
`managerReturns`; `LoadDir`, `Open`, `buildRouterStack` (each may fail),
`serviceStarts`, `waitForStop`, `drain`, `drainGrace`, `shutdownPublic`,
`shutdownMetrics`, `runService`; the retention goroutine; the listeners.

The program takes no time: `Tick` is enabled only when no goroutine of it can
move (`Quiet`), and never past a timer that is due. `Quiet` is written out, one
conjunct per goroutine, and not as `~ENABLED Program`, which the prover cannot
expand; TLC checked on the instance of `lifecycle` that the two agree. What
takes time is building the dependencies, a retention pass and an exchange. This
is what makes `WaitIsExplained` meaningful: time that passes while the runner
waits has a cause that the property lists. Pre-run and post-stop hooks cannot
fail (`HookFunc` returns nothing) and are part of the step next to them.
`App.Stop` never returns an error, so the `stopErrCh` case of the runner's last
select cannot be taken, and the runner's own context is never cancelled before
it returns; neither is modelled. The process exits with `result`; goroutines
that are left go with it.

### PolicyCompiler and PolicyEngine

A value of Go's `any` is a record with a kind (`int`, `float`, `nan`, `string`,
`bool`, `list`, `uint` for what `AsNumber` does not convert, `absent`). Numbers
are integers in units of 10^-8; `Float32` is what a decimal becomes on its way
through the generated `float32` fields, so the widening is part of the model;
`Widening` bounds how far the sum of one answer's probabilities moves by it.
`NodeShape`, `RuleShape` and `DocumentShape` say what the decoder leaves of a
document, as an assumption on the documents of an instance.
Names are judged by membership in the sets their grammars stand for, sizes by
numbers, and texts are opaque. A condition tree is the sequence of its nodes.
Every failure of the compiler is the same failure.

Where the outcome depends on the order of a Go map, an operator gives the set
of outcomes: `CompiledForms` is a set because of `noulCriteriaMap`, where a
YAML map may hold a key twice, as the boolean `True` beside the string `"true"`
(the parser itself refuses `true` beside `"true"`), and
`questionOrders` is one order because the compiler sorts. The hash is the
canonical form itself: SHA-256 is taken to be injective. A noul criteria map
that is missing and one that is empty are one compiled form here, as they have
one hash (`omitempty`) and decide alike; the request to the provider has `null`
for the one and `{}` for the other.

`PolicyEngine` steps: `Start` (`LoadDir`), `Redeploy`, `ResolveNamed`,
`ResolveInline`, `Decide` (`ValidateFacts`, `EvaluatePreRules`),
`ProviderAnswers` (`normalizeResponse`, `ValidateAnswers`,
`EvaluateDecisionRules`), `Finish`. There is one evaluation at a time: a
compiled policy is immutable and shared by all.

### Transport: state and steps

| State | In the code |
|---|---|
| `bucket`, `admitted`, `mark` | the `rate.Limiter` of each surface; history: how many it let through, in all and by the start of each tick |
| `inFlight` | the gauges of `Metrics` and `instrument` |
| `pc`, `call`, `stamp`, `result` | one call per connection: where it is, what it brings, the `CreatedAt` of the row it works on, what the core returned |
| `answer`, `completion` | the status (and MCP's `isError`) the client gets, and the one logged and counted |
| `rows`, `page`, `walk` | the evaluations table as `List` sees it, the page read, and a client that walks the pages |
| `alive`, `now`, `traffic` | the process, the clock, and the kind of load of a behaviour |

| Action | Code |
|---|---|
| `refuseUnbound`, `enterChain` | the generated wrapper binds parameters, then applies the middlewares: `RequestID`, `Recovery`, `SecurityHeaders`, `AccessLog`, `Metrics` |
| `RateLimit` | the limiter, and `BearerAuth`, `BodyLimit`, `strictJSONBodies` behind it |
| `Create`, `persist`, `callCore` | handlers and tools around the core; `Create` stamps its row before the provider is asked and inserts it after |
| `List`, `probe` | the two queries of `List` |
| `recoverPanic`, `toolPanics` | a panic in a handler, and in a tool |
| `expireEvaluations`, `Tick` | retention; time, which refills the buckets |

`createEvaluation` and `otherOperation` are the handlers' mappings from results
to the statuses the contract declares, over `classify`, `classifyProvider` and
`recordedFailureStatus`. A tool answers 200 whatever came of the work, as the
SDK turns its error into a result.

## Runs

| Run | Checks | Instance |
|---|---|---|
| `create` | `TypeOK`, `KeysNameTheirRow`, `AnsweredIsDurable`, `OneOwnerPerKey`, `LiveKeyNeverBills`, `SnapshotsCover`, `ReplayIsFaithful`, `FactsBeforeModel` | two calls, one key or none, a policy file with two texts, one of them also sent inline, bodies of all three phases, a retention loop, clock to 2 |
| `retention` | `LabelsAreDurable`, `AgedRowsAreRetired`, `ExpiredKeysArePurged`, `ImplementsAuditLog` | two calls, a label, a loop with batches of one, with fairness |
| `client` | `TypeOK`, `SlotsAreHeld`, `SeriesIsBounded`, `RetryAfterIsHonoured`, `EveryCallReturns` | two callers that keep calling, one slot, three attempts, seven combinations of headers, lag of one tick, with fairness |
| `manager` | `TypeOK`, `OnlyCyclesAreRefused`, `DependenciesFirst`, `StopsInReverse`, `FailureIsFound`, `RunTellsWhy`, `LaunchedIsStopped`, `RunReturns` | three services, two of which notify, one allowed to fail, one retried once; a join, a chain and a cycle; one other goroutine that may call `Stop`; with fairness |
| `lifecycle` | `DatabaseOutlivesItsUsers`, `ExitIsTruthful`, `WaitIsExplained`, `ProcessEnds` | two exchanges; grace 2, runner 3, drain 4, probe 1; with fairness |
| `engine` | `OperandsAreTyped`, `DecisionIsExplained`, `SameHashSameDecision`, `HashSurvivesRestart`, `HonestAnswersPass` | some 1,600 documents, twelve directories, eight sets of facts, eighteen replies |
| `transport` | `RateHoldsInEveryWindow`, `AnswerFitsTheResult`, `GaugesCountCalls`, `WalkSeesEveryRow` | a walk with pages of one over two rows against a client that creates and retention; or a tool that creates beside a REST client; or two clients that make every other call; bursts of two, window 1, clock to 2 |
| `same_key` | refutes `SameRequestIsReplayed` | two calls, one key, no time passes |
| `stale_key` | refutes `StaleKeyIsUnused` | a key used again after it expired |
| `orphan_feedback` | refutes `FeedbackPointsAtItsEvaluation` | one label against one pass |
| `lost_stop` | refutes `EveryStartedIsStopped` | the services of `manager` |
| `skipped_grace` | refutes `AcceptsUntilUnrouted` | the times of `lifecycle`, one exchange |

Bounds. In `create`, two calls race for a key, and one can come back to a key
that the other owned, with its own body or another, before it expires, after,
and after a pass removed it or the row; an edit of the policy file, a retention
pass or an interruption may come between any two of their statements. A third
call adds an onlooker: the proofs of these properties hold for any number.
`EvaluationRetention = 1`, `IdempotencyRetention = 0` and `MaxTime = 2` put each
boundary (`<` or `<=`) inside the run, and let both windows end while calls are
in flight. `BatchSize = 1` with two rows makes a backlog of more than a batch,
and in `retention` lets a pass take one decision while the label of the other,
not due yet, is there. With a bounded clock the liveness runs end in states
where time stands still and the loops go on, which is the worst case for them.
Calls are interchangeable, so `create` uses symmetry; `retention` does not.

In `client`, a ceiling of 6 with a timeout of 2 and pauses of up to 5 lets a
series end by each of its limits; `BackoffMax = 2` is below the pauses asked
for, and with `HalfRange = 8` one header wraps to a negative pause and one to a
short pause. A series is finite, so no clock needs a bound. With two callers
and one slot every call has to wait for a whole series of the other.

In `manager`, the join has a group of two and a name outside the process, the
chain has three groups, so that a startup is cut short with groups before and
after, and two services that are not allowed to fail can fail at once.

In `lifecycle`, the balancer notices within the grace, the grace fits the
runner's timeout and one drain does not, which is the order of the defaults
(probe, 5 s, 10 s, 20 s). Two exchanges can hold both drains.

In `engine`, the limits of `document.go` are scaled down so that documents lie
on both sides of each; the leaves are all combinations of ten operands, eight
operators and seventeen right sides, and more with operands that do not
resolve. Replies and facts lie on both sides of each check of their contract,
and two sums of probabilities at the edge of the tolerance, nearer to it than
the widening.

In `transport`, pages of one make a walk of several calls, and two ticks with a
window of one let the initial rows age and go during it, while a row stamped at
any moment comes in and is not due. Two tokens a bucket, refilled by one, are
used up by one client, and saved up and used up again. The load is one of three
kinds, a constant of the behaviour: the walk needs depth, the mixed calls
breadth. `CHECK_DEADLOCK` is off because the process ends when a tool panics.

Fairness. Weak fairness of the clock and of `StartPass`: the ticker fires.
Strong fairness of each statement of a pass: a pass may fail at any statement
any number of times, but a statement that is reached again and again succeeds
in the end (`runRetention` logs a failed pass and goes on, and "the next tick
retries the same work"). Callers owe nothing: any call may stop anywhere.

For `client`: weak fairness of time, of an exchange whose timeout has passed and
of a pause that is over (timers of the Go runtime and of `net/http`), and
strong fairness of `acquireSlot`: goroutines that wait to send to a channel are
served first in, first out. No fairness of cancellation, of the server or of
the callers.

For `manager`: weak fairness of `Run`, of every `Stop` call once it is made and
of the one `Run` makes, of timers (`stopServiceWithTimeout`, retry delays) and
of reporting a failure; and a service returns once its context is cancelled,
which the contract of `Service.Run` demands ("It must return when `ctx.Done()`
is closed"). No service has to become ready, to fail or to return otherwise,
nobody has to call `Stop`.

For `lifecycle`: weak fairness of the program as a whole, of work that was
begun, of time and of the probing balancer; strong fairness of `runRetention`,
whose select picks at random between its ticker and its context. Exchanges need
not end and no signal need come.

### What the refuted runs show

* `same_key`: `r1` and `r2` both find no record, both are billed, `r1` commits,
  `r2` fails on the primary key. `docs/api.md` promises that the original is
  returned and the provider is not called again. The caller gets an internal
  error; a further retry does replay. (`LiveKeyNeverBills` is what does hold:
  once the first call has been answered, no later one is billed.)
* `stale_key`: the record expired, `replay` treats the key as unused, the call
  is billed and fails on that same record, unless a retention pass (by default
  hourly) removed it in between. The same happens to a live key whose
  evaluation was retired.
* `orphan_feedback`: a label is inserted after `DeleteFeedback`, the evaluation
  goes, and no later pass looks for that label again. `LabelsAreDurable` is what
  holds: until the window of its decision is over, an accepted label and the
  decision are both there.
* `lost_stop`: `Stop` comes after `Run` has set its cancel function and before
  `runServiceGroups` takes its lock. It cancels the context and walks an empty
  list, which uses up `stopOnce`. `runServiceGroups` does not look at the
  context, so `Run` launches every group under a cancelled context, and its own
  deferred `Stop` does nothing. The README of the package says that `Stop` "is
  called after the manager cancels its run context". `LaunchedIsStopped` is
  what holds: without another caller, everything launched is stopped.
* `skipped_grace`: a signal comes, `App.Stop` cancels the context, the service
  leaves its select and marks itself not ready, and `drainGrace`, which waits on
  that same context, returns at once. The public listener closes while the
  balancer, whose probe would have noticed within the grace, still routes to it.
  The comment of `drainGrace` gives this race as what the grace prevents. It is
  kept only when the service ends without a cancelled context, that is, when a
  listener fails.

More divergences of the service manager, without a run of their own. Its README
says that "group N+1 starts only after group N has been launched and its
ready-notifying services have become ready"; a service that exits first is not
waited for, as the comment of `waitGroupReady` says, and after a cancellation
the remaining groups are launched one after the other without any waiting.
`DependenciesFirst` states what is kept. A `Stop` that comes before `Run` has
set `s.cancel` cancels nothing, and `Run` goes on until its own context ends;
`RunReturns` therefore starts from a cancelled context.

Two divergences are noted without a run of their own. `docs/architecture.md`
puts the validation of facts (step 4) before the idempotency lookup (step 5);
the code validates them after the lookup and the snapshot, so a call with
invalid facts leaves a snapshot, and a replayed call is never validated.
`validateExpectedOutcome` judges a label by the policy loaded now under the
judged policy's name and version, also for an inline policy that shares them
and after an edit, and accepts anything when nothing is loaded under them, while
its comment says that it "refuses an outcome the judged policy never declared"
(`feedback.go:65`). The model does what the code does (`OutcomeAccepted`), and no
property is stated of it.

Two facts about the client that no document contradicts, but a reader may not
expect. With the defaults `MaxRetryAfterWait` equals `MaxElapsed`, so a server
that asks for 30 s or more is never waited for, and the caller gets a timeout
(`ExhaustBudget`), not the rate limit that caused it. A pause too long for a
64-bit duration wraps and may be cut to the back-off; `RetryAfterIsHonoured`
excepts it.

### Disagreements without a run of their own

Each is an exception named in a property, or a step of a model whose comment
says what the code does.

Lifecycle.

* A failure of the application may be reported as a success. `waitForShutdown`
  picks either of a pending signal and a pending error (`runner.go:116`), and an
  error that comes after the signal was read is not read at all; and `runService`
  of the supervisor drops what a service returns once its context is over, the
  error of a drain included.
  `ExitIsTruthful` therefore demands of a success only that a signal asked for
  the end and that everything is over.
* A `Stop` of the runner that comes before `App.Run` has set its cancel function
  cancels nothing; the runner then waits out its timeout (`StopCameEarly`, one
  of the reasons of `WaitIsExplained`). The after-stop hooks run meanwhile,
  which `app.go:62` says they do "after all services stop".
* Two drains of up to 20 s follow one another inside the 10 s of the runner
  (`shutdownTimeout`, `constants.go:55`); a call longer than that ends with the
  process (`WaitIsExplained`).
* `docs/deployment.md:102` says "In-flight evaluations are cancelled rather than
  left to finish". `Shutdown` waits for them.
* A service that fails while it is set up leaves its SQLite pool open;
  `DatabaseOutlivesItsUsers` speaks of a service that was set up.

Transport.

* What the generated wrapper cannot bind is answered before any middleware runs
  (`refuseUnbound`): not logged, not counted, not limited and not authenticated.
  `router.go:171` says that "Everything that can reject a request sits inside
  the logger".
* A recovered panic writes no completion record: `Recovery` is outside
  `AccessLog` and `Metrics` (`recoverPanic`).
* An inline policy that does not compile, and a read that its client closed, are
  answered 500 (`Misblamed`), although `handlers.go:141` calls what is unmapped
  "a defect rather than a caller mistake" and `errors.go:138` speaks of keeping
  "the 5xx rate honest".
* A tool that records a provider failure returns a result without `isError`
  (`respond`); `docs/mcp.md:60` says "A tool that fails returns an MCP tool
  error".
* A tool that panics ends the process (`toolPanics`): the SDK runs it on its own
  goroutine, where the mounted `Recovery` does not see it.
* REST and MCP have a bucket each (`RateLimit`); `docs/security.md:92` promises
  "one global token bucket covering REST and MCP". `RateHoldsInEveryWindow` is
  the bound of one surface; the two together reach twice that, and exceed what
  one bucket would allow.
* `docs/api.md:75` says that "paging through a table that is being written to
  does not skip or duplicate rows". Pages are offsets, so a row inserted ahead
  of the next page shows the last row of this one again. And a page that is
  read after retention took a row may miss a row that is due as well and still
  in the table. `WalkSeesEveryRow` states what holds: no row that is to be kept
  is missed.

Policies.

* A reply that omits a number is read as one with 0 (`convert.go:205`), so a
  check on a missing confidence cannot fail; the hazard is listed without a
  property.
* A criterion in both spellings (`True` beside `"true"`) is decoded in the order
  of a Go map, so the hash of that document differs between two starts
  (`HashSurvivesRestart` excepts it).
* A number inside a structured score level never matches (`evaluate.go:288`; a
  level that is a bare number does not compile), and a sum
  of probabilities at the edge of the tolerance may fail after it was widened
  from 32 bits (both excepted by `HonestAnswersPass`, the second for sums nearer
  to the edge than `Widening`).
* The comment at `compile_condition.go:630` says that a score is bounded by its
  levels; only probabilities are checked against a range.

## Proofs

Those about `Evaluations` assume `ConstantsAssumption`, `DeploymentAssumption`
and `NoneAssumption`, and nothing about the number of calls,
loops, keys or policies or the length of the windows.

* `TypeCorrect`. `TypeOK` is not inductive: a step reads the request, the key
  record or the row of its call. `Shape` adds that a call at such a step has
  one.
* `AlwaysInductive`. `Inductive` has three layers, proved one on top of the
  other. Calls: a deciding call has its snapshot, builds its own row, and is
  billed at the provider step only (`SnapshotTaken`, `OwnRows`, `Billing`).
  Journal: a committed row belongs to a call past `persist`, whose request no
  longer changes; its key is that call's (`JournalRows`, `JournalGrants`,
  `JournalUnique`). Tables: what is there was committed, and what was committed
  is there unless its own window is over; a pass holds only IDs of rows aged
  when it read the clock (`TableRows`, `TableKeys`, `Passes`). On top, what a
  replay, a response or a label refers to was committed (`Lookups`, `Answers`,
  `Labels`). The lemma `Monotone` carries all of it over the steps of other
  actors, and `Writers` names the few steps that write a table.
* From it follow `SnapshotsCover`, `KeysNameTheirRow`, `AnsweredIsDurable`,
  `ReplayIsFaithful`, `FactsBeforeModel` and `LabelsAreDurable`. The last needs
  `Labels` to say of a submission between its read and its insert that its row
  was committed, and of one that is done that its label is there or the row's
  window is over; a pass takes no other label, as it holds only IDs of rows that
  were aged when it read the clock (`PassesTakeAged`).
* `OneOwnerPerKey` is inductive relative to `Inductive`: every unexpired record
  is in the table, and `persist` fails on any of them.
* `LiveKeyNeverBills` needs `Protection`: replay decides in two queries with
  retention in between, so the invariant says what the first one learned, and
  that a call gets past the second only when the key expired or the row's own
  window is over.
* `TableImplementsAuditLog`: a commit is `Record`, the second delete of a pass
  is `Retire` or a stutter (another process was faster), every other step a
  stutter or `Tick`.

* `AlwaysBounded` (`TypesafeClientProofs`), from `ConfigAssumption` (what
  `withDefaults` and `validate` leave of a configuration), `DurationAssumption`
  and `HeadersAssumption`. `TypeOK` needs `SlotsAreHeld` (a release finds a
  token) and both need each other; the bounds on a series need `Series`, which
  says when the timer of each call fires at the latest: in a pause before the
  ceiling, in a retry before the ceiling, a lag and a timeout. `WrapFits` says
  that a pause that fits is parsed as it is, `DelayBounds` that the back-off
  never shortens it. From it follow `SlotsAreHeld`, `SeriesIsBounded`,
  `RetryAfterIsHonoured` and `OnlyTransientIsRetried`.

* `AlwaysBase` (`ServiceManagerProofs`), from `ServicesAssumption` (finitely
  many services; nothing about the graph). `TypeOK` needs the sort: an in-degree
  stays natural because it is the number of dependencies not placed yet
  (`Sorting`), which holds because placed services rest on placed ones
  (`Layers`). The walk of `Stop` stays inside the groups because it holds the
  lock of the startup (`Startup`, `OnceOnly`).
* `OnlyCyclesAreRefused` follows with `CyclesStayOut`: no service of a cycle
  is ever placed, and what is left when the queue is empty is one.
* `DependenciesFirst` needs `Readiness`: every launched group but the last has
  settled, and the last one has too when the next is about to be launched. What
  has settled stays so because groups are disjoint and no service is launched
  twice.
* `FailureIsFound` and `RunTellsWhy` follow from `Reports` (a signal or a
  reported failure means an error for `Run`, or that `Run` is at its end) and
  `Causes` (why the context ended).
* `StopsInReverse` and `LaunchedIsStopped` follow from `Walk` and `OwnWalk`:
  above the group the walk is at everything launched is stopped, and a walk
  that has anything to stop runs after the startup.

* `LifecycleInvariant` (`LifecycleProofs`), from `TimesAssumption` (the balancer
  notices within the grace; nothing about the other times or the number of
  exchanges). `Inv` is `TypeOK` with five parts. Where the
  service is tells what it has started and what has ended (`ServiceInv`). Who
  called whom, and why, is known at each point of the way out (`ExitInv`). An
  error of the runner, the application or the supervisor is that of the service,
  which was refused or has returned one (`ErrorInv`). A listener reports
  once, and when it has ended, so that its channel is never full
  (`ReportsInv`). A call of `Stop` that holds `stopOnce` waits for the
  supervisor, and the application's own has cancelled (`StopInv`). From it
  follow `DatabaseIsClosedLast`, `ReportedEndIsTheEnd` and the types.
* `NobodyWaitsForNothing`, the action property `WaitIsExplained`, from the same
  invariant. Only `Tick` runs the timer down (`OnlyTicksCount`). With every
  goroutine blocked and the context over, a supervisor that had returned would
  release whoever holds `stopOnce`, the other `Stop` and the runner, so the
  supervisor waits for its service (`ServiceIsBehind`); and every place where
  the service can be blocked then is one of the reasons listed. Without a
  cancelled context, the runner's `Stop` came early.

* `EngineInvariant` (`PolicyEngineProofs`), from `NumbersAssumption`,
  `NamesAssumption`, `LimitsAssumption` (the ceilings mirror the provider's
  contract), `DocumentsAssumption` (what the decoder leaves of a document),
  `RoundingAssumption` (rounding to `float32` is monotone and keeps whole
  numbers) and `RepliesAssumption` (a reply holds decimals, and their rounding
  moves a sum by at most `Widening`); nothing about how many documents, rules,
  conditions, facts or replies there are. `Inv` says that what is loaded is what
  `LoadDir` makes of the directory (`DirectoryInv`), that an evaluation under
  way has a compiled policy, and facts that are valid and settle nothing once
  the provider is asked (`PolicyInv`), and that a result is a refusal or what
  the rules give on those facts and that reply (`ResultInv`).
* `HashIdentifiesPolicy`: the canonical form is injective on compiled policies.
  It leaves out the type of an operand and the empty leaf of a combinator; both
  can be recovered because a compiled node has exactly one branch and its
  operand resolves to a declared fact or question. `SameHashSameDecision`
  follows without induction over condition trees: the same hash is the same
  policy.
* `HashSurvivesRestart`: sorting leaves one order of the question IDs, whatever
  order the map was walked in (of two sorted orders, take the least place where
  they differ), and criteria are compiled in one way unless spelled twice.
* `OperandsAreTyped` joins what three places check. The compiler lets a leaf
  pass only with an operand that resolves and a right side of its type
  (`compileLeaf`), `ValidateFacts` gives each declared fact its type, and
  `ValidateAnswers` gives each answer the fields of its question, with a
  probability for each option or level.
* `DecisionIsExplained`: `FirstMatch` returns the place of a rule or nothing, the
  compiler keeps IDs apart over both phases and outcomes to the declared ones.
* `HonestAnswersPass`: rounding keeps every number in the range it is checked
  against, and a sum farther than `Widening` from the edge stays inside the
  tolerance; what the compiler accepts passes each check of the request.

* `TransportInvariant` (`TransportProofs`), from `TransportAssumption`: finitely
  many connections and rows, numbers as IDs, and one connection that only walks.
  `Routed` says which calls reach which step. `RateHoldsInEveryWindow` is not
  inductive, as a token may be taken that was never made; `Tokens` counts those
  left as well, for every tick a stretch may begin at. `Gauges` needs `Routed`,
  as no tool may be where only a list call is. `WalkOn` says of every row the
  walk is to see that it is aged, or still there and seen, on the page in hand
  or behind the pages read. It is kept because an insert only pushes rows back,
  and because retention takes no row from ahead of one that is not aged
  (`AgedComesLast`). The walk ends only when nothing is left because places have
  no gaps (`NoGaps`): they are an injection of a finite table into as many
  numbers, so the probe of the one place after the page tells whether any row
  comes after it. From it follow `EachLimiterHolds`, `AnswersTellTheResult`,
  `GaugesAreExact` and `WalkMissesNothing`.

`OnlyTransientIsRetried` and the types of `Lifecycle` are proved and are no part
of a run.

TLC checked `Inductive`, `PriorAnswered` and `Protection` on the instances of
`create` and `retention`, `Series` on that of `client`, the ten parts of
`ServiceManagerInvariants` on that of `manager`, and the invariants
of `LifecycleProofs`, `TransportProofs` and `PolicyEngineProofs` on those of
`lifecycle`, `transport` and `engine`, before they were proved.

Every invariant and every action property that a passing run checks is proved.
Model-checked only: liveness, as fairness is beyond the prover
(`AgedRowsAreRetired`, `ExpiredKeysArePurged`, `EveryCallReturns`, `RunReturns`,
`ProcessEnds`), and the five refuted claims. What a condition tree evaluates to
is checked, not proved: the depth of a tree has no bound, and the prover has no
induction over data.

## Not modelled

* The sealing of inputs (`secrets`): cipher and encoding of one value; no other
  part goes by what it returns.
* The filters of `List`, which select rows by equality; pages and probes are
  modelled over the whole table.
* Counters, histograms and log lines, which nothing reads back. The in-flight
  gauges are modelled because they are taken and given back.
* Parsing of YAML, JSON and environment variables, connection set-up and
  migrations: input and output of one goroutine. What a document or a variable
  may turn out to be is a set that the models range over.
* Generated clients, types and repositories, except where a model goes by a
  statement of theirs (the wrapper that binds before the middlewares, the
  updates and deletes of the repositories).

## Plan

All modules of the plan are written: `Evaluations` with `AuditLog`,
`TypesafeClient`, `ServiceManager`, `Lifecycle`, `PolicyCompiler` with
`PolicyEngine`, and `Transport`; their safety properties are proved. What is
left is outside the prover's reach (liveness) or inside a library (the drivers,
the MCP SDK, the parsers).
