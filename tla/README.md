# Formal model of docker-net-doctor

TLA+ modules for the stateful core of docker-net-doctor: the diagnostic engine,
parallel over its worker pool and sequential; the circuit breaker, error
recovery and the enhanced engine built on them; graceful degradation; resource
cleanup; the profiler with its timing storage; the security validator; and the
Docker client with its connection slots, retries and response cache. TLC checks
small instances; TLAPS proves the safety properties of all of them, and the
refinement of the timing storage, for instances of any size. `PROJECT.json` lists components, runs,
seeded faults, the map from definitions to source lines, findings, hazards and
theorems.

To repeat a result:

    tlc -config MCWorkerPool.cfg MCWorkerPool      # model-check a run
    tlapm EngineProofs.tla                         # check the proofs of a module

## 1. The system

A command builds a Docker client and a diagnostic engine, the engine runs the
registered checks (in sequence or over a worker pool), and the results become a
report. Around this lie resilience parts (circuit breaker, retry policies, error
recovery, degradation, cleanup) and measurement parts (metrics, profiler,
timing storage).

| Component | State | Operations | Hard behaviour | What makes it correct |
|---|---|---|---|---|
| SecureWorkerPool (`worker_pool.go`) | job and result channels, started/stopped flags, pool context, atomic counters, error-rate monitor | Start, Stop, Submit, worker loop, executeJob, WaitForCompletion | sends and counts are separate steps; channels fill; Stop races Submit; contexts end anywhere | no job lost or doubled, counters exact, workers end |
| DiagnosticEngine (`engine.go`) | registered checks, results, summary | Run, runWithWorkerPool, runSequential | refused submissions, late and missing results, timeouts, panics | report faithful, Run returns, nothing left behind |
| CircuitBreaker (`circuit_breaker.go`) | state, failure and success counters, probe count, totals, transition history, two timestamps | CanExecute, RecordSuccess, RecordFailure, Reset, ForceOpen, ForceClose, UpdateConfig | results of calls admitted in an earlier state; reconfiguration in flight | thresholds and probe budgets kept, no stranding but by the configuration |
| ErrorRecovery, RetryPolicy (`error_recovery.go`, `diagnostics/retry_policy.go`) | shared breaker, policy, operation metrics | ExecuteWithRecovery, RetryPolicy.Execute, HandleError, four recovery strategies | breaker opens while other callers retry; recovery after exhaustion | every operation is counted and recorded in the breaker once |
| EnhancedDiagnosticEngine (`enhanced_engine.go`) | results kept between Runs, worker slots, result and error channels | Run in parallel and in sequence | goroutines, a closer and a collector share two channels; few or no worker slots; panicking checks; a breaker opened by one Run blocks the next | no check forgotten, Run returns |
| GracefulDegradation (`graceful_degradation.go`) | level, manual override, indicators, history, read/write lock | UpdateHealthIndicator, SetManualLevel, ClearManualOverride, GetCurrentLevel, GetDegradationStatus, FilterChecks, health loop, Stop | nested locking, stability period, late writers | history consistent, level follows health, no self-deadlock |
| ResourceCleanupManager (`resource_cleanup.go`) | tracked resources, metrics, history, stop channel | TrackResource, UntrackResource, four kinds of cleanup, Shutdown, periodic loop | lists used after the unlock, failing and cancelled batches, concurrent Shutdowns | a success of a real cleanup means all were removed, stops once, cleanups return |
| PerformanceProfiler, MetricsCollector (`performance_profiler.go`, `metrics_collector.go`) | enabled and started flags, metrics with their mutex, collector goroutine | Start, Stop, Enable, Disable, Reset, three profiling calls | mutex replaced while held, restart of the collector, label after store | nothing stored goes uncounted, ordinary use never crashes |
| TimingStorage (`timing_storage.go`) | circular buffer, three indexes | Store, Clear, GetAll, GetByCategory, GetStatistics | wrap-around, entries changed after they are indexed | a bounded log of the latest entries, exact index |
| SecurityValidator (`security_validator.go`) | allow and deny lists, test mode, audit log | ValidateCheck, AddToAllowlist, AddToDenylist, SetTestMode, ResetAuditLog | lock taken per rule, lists edited in between | a verdict matches the policy of some moment of the call |
| EnhancedClient (`client_enhanced.go`) | slot semaphore, closed flag, client context, cache, gauge | six API operations, InvalidateCache, Close | waits for slots and tokens, retries, Close and invalidation in flight | slots conserved, calls return, closed client quiet |
| ResponseCache (`response_cache.go`) | entries with age and TTL | Get/Set, GetOrCompute, Invalidate, cleanup goroutine | store after an invalidation, eviction at the limit | bounded |
| docker RetryPolicy (`docker/retry_policy.go`) | none shared | Execute, ExecuteWithValue | timeout during backoff | at most MaxRetries retries |
| ClientMetrics (`client_metrics.go`) | counters, gauge and peak, error list | Record*, UpdateActiveConnections, GetSnapshot | atomic add and locked peak in two steps | peak exact |
| RateLimiter (`rate_limiter.go`) | limiter, metrics, config | Wait, TryAcquire, UpdateConfig, ResetMetrics | a wait cut short by its context | a refused wait is reported |

The engine owns one pool per Run: it is the pool's only submitter and consumer
and calls its Stop. The pool's Submit asks the validator. ErrorRecovery asks the
breaker before an operation and records the outcome after it; the enhanced
engine runs every check through one ErrorRecovery, so all its checks and Runs
share a breaker. The profiler owns its storage and starts the collector, which
reads the profiler's metrics. The client is used by checks from several worker
goroutines at once; its calls share the semaphore, the limiter, the cache and
the gauge.

## 2. Modules

| Module | Models | Composed of |
|---|---|---|
| `WorkerPool` | SecureWorkerPool and ErrorRateMonitor | |
| `Engine` | one `Run`, in parallel and in sequence | EXTENDS `WorkerPool` |
| `CircuitBreaker` | the breaker and the calls it guards | |
| `ErrorRecovery` | ExecuteWithRecovery, the retry loop, error classes, recovery strategies | INSTANCE `CircuitBreaker` |
| `EnhancedEngine` | `Run` of the enhanced engine, both modes | EXTENDS `ErrorRecovery` |
| `GracefulDegradation` | the level machine and its lock | |
| `ResourceCleanup` | the cleanup manager and its loop | |
| `BoundedLog` | abstract: the last N entries, oldest first | |
| `TimingStorage` | the circular buffer and its indexes | INSTANCE `BoundedLog` (refinement) |
| `Profiler` | the profiler and the metrics collector | EXTENDS `TimingStorage` |
| `SecurityValidator` | ValidateCheck against concurrent edits | |
| `ResponseCache` | the cache, one operator per method | |
| `EnhancedClient` | the API call path, Close, InvalidateCache, the retry loop, the connection gauge | EXTENDS `ResponseCache` |
| `EngineProofs` | theorems on the pool alone (`PoolSpec`) and on one `Run` (`Spec`) | EXTENDS `Engine` |
| `EnhancedClientProofs` | theorems on the client and its cache | EXTENDS `EnhancedClient` |
| `EnhancedEngineProofs` | theorems on error recovery and the enhanced engine | EXTENDS `EnhancedEngine` |
| `ProfilerProofs` | theorems on the storage and the profiler | EXTENDS `Profiler` |
| `CircuitBreakerProofs`, `GracefulDegradationProofs`, `ResourceCleanupProofs`, `SecurityValidatorProofs` | theorems | EXTEND the module of that name |
| `MC...` | instances for TLC | |

Definitions named `Fault...` are seeded faults: plausible slips in the code,
written next to the definition they would replace. No specification uses them;
each property is known to notice one of them.

### WorkerPool

A job is named by its check; `jobs` and `results` are the two buffered channels
and `delivered` what the consumer took. A Submit passes `screen` (the started,
stopped, memory and circuit tests), `sending` (the select with the send),
`sent` (the counter is added after the send) and `counted` (the deferred cancel
of the job context is still to come). A worker goes from `idle` to `limit` and
`waiting` (the limiter), `run`, `send`, `release` (activeJobs drops) and
`record` (completed or failed, and the error-rate monitor). Each of these is a
point where another goroutine can step in. `Live` is a conjunct of every action
but `SubmitPanic`, a send on the closed channel, which ends the process. Checks
succeed, fail or panic (recovered by executeJob, a failure) by choice; the
memory monitor and the validator are reasons for which Submit may refuse.

### Engine

`epc` is the place of the goroutine of Run and `parallel` its mode. In parallel:
the submit loop, the collection loop, the deferred Stop and the return. `runCtx`
tells a cancelled context from one past its deadline; either also ends the
pool's context. `outcome` records how collection ended: complete, partial (the
collection timer, which has the duration of Run's deadline and starts later, so
it can win only once the deadline has passed) or error (the context ended). In
sequence one step takes one check: the limiter (which refuses for certain once
the context has ended; the refusal is reported as a failure), runCheckSafely,
and the test whether a failed daemon check ends the Run. A check that panics
makes runCheckSafely return nil, which runSequential dereferences: `crashed`.
The result channel of the run has room for every check, as in the program, whose
channels hold 100 and which has 11 checks; workers that block on a full result
channel are in the run of the pool alone.

### CircuitBreaker

Every method holds `cb.mu` throughout, so each is one action. A caller is
`running` between CanExecute and its Record call. The two clock comparisons are
the flags `recoveryDue` and `resetDue`, set by actions of their own and cleared
where the code takes a new timestamp. Failure rates are kept as integers in
percent; the quotients' divisions by zero are spelled out. `NoDeadEnd` is that a
breaker in HALF_OPEN has a probe to give or to wait for; it fails for the
defaults of the constructor.

### ErrorRecovery and EnhancedEngine

`phase` is a caller's place in ExecuteWithRecovery: the breaker's question, the
attempts of the retry policy (`attempt`), the record of success or failure, the
recovery strategy that `classifyError` selects, and the metrics; the caller gets
the operation's error even when recovery works. `guarded` is the breaker's own view of the caller; the breaker's
actions are those of `CircuitBreaker`, instantiated over the same variables and
without operator calls. An error is named by what its message matches, and
retryability and class are functions of that name. `recovery` is er.metrics.

HandleError called directly, as the package's example shows
(`error_recovery.go:22`), is left out: nothing in the program does so.

`parallel`, `workerCount` and `recovers` are configuration, chosen at the start.
`WorkerCounts` contains 0, because NewEnhancedEngine does not validate the field:
the semaphore then has no room and Run waits for ever. A Run filters the checks
and asks for the degradation status (`status`), a call that may never return
(`StatusHangs`; module `GracefulDegradation` shows how). A check is its own caller
of ErrorRecovery, or is called directly when error recovery is off (`RunDirectly`).
Nothing recovers a panic of a check, so `CheckPanics` ends the process.

In parallel, `wg` are the goroutines the WaitGroup counts, `waiting` and `sem`
those before and inside the semaphore, `resultsChan` and `errorsChan` what was
sent and not collected. `Leave` is the two deferred calls of a goroutine;
`CloseChannels` waits on `wg` alone; `CollectorEnds` is the collector seeing both
channels closed. In sequence `queue` is what is left, emptied when the daemon
check fails or the context is found cancelled. `collected` and `failures` belong
to one Run; that e.results.Checks also keeps the results of earlier Runs is not
modelled.

### GracefulDegradation

The level, the override, the indicators in units of their thresholds, and the
history of transitions. The read/write lock is modelled as Go implements it: a
writer announces itself (`pending`), which keeps new readers out, then waits for
the readers inside. A method waits, holds, acts and releases; GetDegradationStatus
and SetManualLevel wait a second time, at `nested`, while they hold the lock.
The monitoring goroutine evaluates the level at every tick until `stopCh` is
closed; closing it twice ends the process. `stable` is whether the stability
period has passed since the last change of level. `EnableAutoRecovery` is a
constant that no action reads, because the code does not read it either; nor does
it read RecoveryStabilityPeriod and ConservativeRecovery, which the model leaves
out (`graceful_degradation.go:134-136`).

### ResourceCleanup

A cleanup chooses resources by its trigger (periodic, after an error, aggressive,
final) under the lock and then works on that list without it: `todo` batches,
`waiting` and `holding` inside one batch around its semaphore, and `removed`,
`skipped` and `failed` by the Action each result got. Cancellation leaves the
batches that have not begun. Meanwhile other callers track, untrack, clean and
shut down. The history entry records what the operation set out to clean, whether
it called itself a dry run and successful, and, for the model, what it removed.
`DryRun` and `ClientAvailable` are chosen at the start. The one constructor leaves
the client nil, so that every real removal fails; with a client the three removal
functions are placeholders that succeed. The run has both.

### TimingStorage, BoundedLog and Profiler

A measurement is a pointer: a number into `timing`, whose fields its owner may
change after the storage has indexed them. `measurements`, `currentIndex` and
`wrapped` are the ring; its reading order `GetAll` is the `log` of `BoundedLog`,
so `LogImplemented` says that the ring keeps exactly the latest `MaxSize`
measurements in order through every wrap and Clear.

A worker in the profiler runs the operation, stores the measurement, counts it
and labels it. The owner starts, stops, enables, disables and resets. Reset locks
the metrics' mutex, replaces the metrics (mutex included) and clears the storage;
`waiters` are goroutines that were queued on the old mutex. `starting`, `running`,
`collecting` are the collector's goroutine from `go` to its return.

### SecurityValidator

`pc` is the rule ValidateCheck is about to apply; the lists, the mode and the
audit log change between two rules. `witness` is a history variable: the verdicts
the policy in force would have given at the moments of the call, and whether the
mode was switched under it.

### ResponseCache and EnhancedClient

Of a response the model keeps whether the daemon sent it before or after the
last invalidation. Of the Timestamps it keeps the relation `older`. A call goes
through `check`, `acquire`, `activate`, `peak`, `limit`, `request` / `backoff`,
`deactivate`, `settle`, `return` and `store`: the closed flag, the select on
semaphore, context and close channel, the gauge's add, its peak update, the
limiter, the retry loop, the two deferred calls in their order (the gauge's
decrement again in two steps), and the cache fill. GetNetworkInfo goes through
the loop once more per network without holding a slot in between. Close sets the
flag and closes the channel, then cancels the client's context.
`highWater` is a history variable.

## 3. Runs

| Run | Bounds | Shows |
|---|---|---|
| `worker_pool` | 2 workers, 2 submitters, 3 checks, channels of capacity 1, circuit after 2 samples | `ActiveJobsAccounting`, `ResultsCounted`, `NoJobLost`, `OnePlacePerJob`, `DrainedCircuitLatches` |
| `engine` | 2 workers, 2 checks, job channel 1, result channel 2, both modes | `NoPanic`, `ReportFaithful`, `SequenceReported`, `CompleteLeavesNothing`, and the liveness properties `RunReturns`, `WorkersExit`, `AcceptedChecksCollected` |
| `engine_missing_check` | the same | violation of `CompleteRunReportsEveryCheck`: a completed Run lacks a check |
| `circuit_breaker` | 3 callers, 3 configurations (the defaults with threshold 2 among them), 6 requests, 2 operator calls | `CountersNested`, `ClosedBelowThreshold`, `HistoryBalanced`, `ProbeLimit`, `StrandedOnlyByConfig` |
| `enhanced_engine` | 2 checks, 0, 1 or 2 worker slots, with and without error recovery, 2 Runs, 1 retry, 4 breaker requests, 3 kinds of error, 2 configurations | `NoCheckForgotten`, `RecoveryAccounted`, `CallsPaired`, `RunReturns` |
| `enhanced_engine_built` | the same, only the configuration the constructor builds | violation of `OpensOnFailure`: the breaker opens with nothing failed |
| `degradation` | 1 user and the monitor, 3 varying indicators, history of 2 | `HistoryChains`, `FilterNarrows`, `LockServed`, `LevelFollowsHealth` |
| `degradation_hang` | 2 users and the monitor, manual override off | violation of `NoSelfDeadlock`: a goroutine waits for the lock behind itself |
| `cleanup` | 2 callers and the loop, 3 resources (one protected; one temporary; one old that depends on it), batches of 2, semaphore of 1, history of 1, 1 cleanup besides Shutdown's, dry run or not, client or none | `SuccessIsComplete`, `StopsOnce`, `CleanupsReturn`, `LoopStops` |
| `profiler` | 1 worker and the collector, ring of 2, 4 measurements, 2 Starts, 1 Reset | `CategoryIndexExact`, `StoredCounted`, `LogImplemented` |
| `validator` | 2 callers, 4 checks (registered, unlisted and failing the lesser rules, test check, ill-formed), log of 2, 3 edits | `ListsConsistent`, `VerdictJustified` |
| `docker_client` | 2 callers, 1 slot, cache of 1, six operations, 1 retry, 1 network | `TypeOK`, `CacheBound`, `SlotsConserved`, `ClosedClientQuiet`, `CallsReturn` |

Where no `TypeOK` is listed, the types are conjuncts of a property on the same
variables (`OnePlacePerJob` in the pool, otherwise the first); the breaker's are
proved (section 5).

Seven further configurations are not among the runs of `PROJECT.json`: each shows
by a counterexample that a promise the code makes does not hold (section 7), and
so that the passing runs above could not promise more.

| Configuration | Bounds | TLC reports a violation of |
|---|---|---|
| `MCWorkerPoolStop.cfg` | as `worker_pool` | `StopIsGraceful` |
| `MCEnginePanic.cfg` | as `engine` | `NoCheckCrashes` |
| `MCEngineInterrupted.cfg` | as `engine` | `InterruptedRunKeepsResults` |
| `MCCircuitBreakerStranded.cfg` | 2 callers, the constructor's defaults, 9 requests, no operator | `NoDeadEnd` |
| `MCGracefulDegradationRecovery.cfg` | as `degradation`, EnableAutoRecovery off | `ImprovesOnlyIfAllowed` |
| `MCProfilerCrash.cfg` | as `profiler`, 1 Start | `NeverCrashes` |
| `MCResourceCleanupShutdown.cfg` | as `cleanup` | `SuccessMeansRemoved` |

Why the bounds are enough. With channels of capacity one and three checks both
channels fill while a submitter and a worker wait on them; two submitters give
two Submits between send and count. Two samples open the error-rate circuit with
a job still in flight. The engine needs two checks to have one refused and one
answered, and two workers to have one stuck and one idle. The breaker's three
callers give two late results of opposite kind while a third is admitted; six
requests pass the largest threshold of the three configurations and the adaptive
and rate tests; two operator calls allow a forced transition and a
reconfiguration (`RequestBound` and `AdminBound` are guards); nine requests are
five failures, two probes that succeed and two to spare. In the enhanced
engine two Runs of two checks let the first open the breaker, the time pass and
the second probe it, with one check admitted and the other refused in the same
Run; with one worker two checks meet a full semaphore; one retry gives an
operation that fails, is retried and then succeeds or goes to recovery. In
degradation one user suffices to overlap every method with the
monitor, and the indicators' values reach all four levels; the hang needs a
second user, and manual overrides are off there so that the trace is about
GetDegradationStatus. An aggressive cleanup of three resources takes two
batches, and two goroutines of a batch meet a full semaphore. A ring of two wraps twice in
four measurements, so an index entry of an overwritten slot is met. Three edits
let a check be allowed and denied again, or allowed and the mode switched, during
one validation. Two callers on one slot give contention while the gauge is at its
maximum and are the tightest case for progress; one cache entry makes every
second Set evict.

Symmetry sets are used for callers, workers, submitters and checks only in runs
without liveness. Deadlock is not checked where the system really stops: the pool,
the engines and the cleanup end, the degradation's self-blocked lock is the
subject of a run of its own, the profiler and the breaker stop at their bounds.
The client's and the validator's runs check it.

## 4. Fairness

*Engine*: weak fairness on the goroutine of Run (its sequential steps included),
on its Submit and on each worker. The Go scheduler runs every runnable goroutine,
checks return (each runs under a job context with a timeout), the limiter hands
out tokens, and the ten second timer of Stop fires. No context is assumed to end:
`RunReturns` starts from the end of the context, and `AcceptedChecksCollected`
shows where none is needed.

*Enhanced engine*: weak fairness on the work of a Run as a whole. Operations end
because checks heed the timeout of Run. Neither new Runs, panics, the hanging
status nor the breaker's recovery timeout are fair: a Run returns even if the
breaker stays open. `RunReturns` leaves out the Runs that are known not to
return: those whose degradation status hangs, whose check panics, and those in
parallel without workers.

*Degradation*: strong fairness on each user's steps and on the monitor's, because
Go's RWMutex serves its waiters in turn, so a lock that keeps coming free cannot
pass one over for ever; a goroutine has one step to take at a time. Weak fairness
on the stability period. Calls are not fair. `LockServed` is conditional on no
nested call, and `LevelFollowsHealth` also on no Stop and on the indicators being
left alone in the end. It asks for improvement only where EnableAutoRecovery
allows it; that the code improves the level anyway is shown by
`MCGracefulDegradationRecovery.cfg`.

*Cleanup*: weak fairness on every step of a cleanup under way and on Shutdown's
close; strong fairness on the loop's return, because its select picks at random
among the ready cases and so takes a closed `stopCh` in the end even if the
ticker is always ready.

*Client*: weak fairness on every caller's steps, strong fairness on taking a
slot, because receivers of a Go channel queue in order: a caller cannot be
passed over for ever while slots keep coming back. Requests end because each runs
under a timeout; backoffs end by their timer. The end of the caller's context
(`AcquireCancelled`), new calls, Close and InvalidateCache are not fair.

## 5. Proofs

A theorem holds for every value of the constants that satisfies the named
assumption of its module. These say that the sets of goroutines are finite, that
capacities and sizes are at least one where the constructors make them so, that
configuration fields have their types, and that the model values standing for
"nothing" differ from real values. Four say more:

- `BreakerAssumption` admits a failure threshold of zero, which the enhanced
  engine really configures, and asks nothing of the number of probes.
- `EngineAssumption`: one submitter (the goroutine of Run) and no check
  registered twice; `EnhancedAssumption` says the same of the filtered checks
  (`enhanced_engine.go:703`). Only the theorems about Run use the first; those
  about the pool rest on `PoolAssumption` alone.
- `KindsAreCategories`: the profiler's three calls are the categories of the
  measurements it stores.
- The bounds that cap a run (`RequestBound`, `MaxRuns`, `MaxCleanups`,
  `MaxStarts`, `MaxResets`, `MaxTimings` and the like) are arbitrary naturals, so
  they limit no theorem.

Each module states one inductive invariant, shows that the initial states satisfy
it and that each action preserves it, and derives the properties from it.

*EngineProofs, the pool.* `ActiveJobsAccounting` and `ResultsCounted` count
queued, held, uncounted and unrecorded jobs; they are inductive together with the
type invariant and `NoWorkerBeforeStart` (Start would otherwise throw away a job a
worker holds). One lemma per group of steps says how a worker or a submitter that
moves changes the counted sets. From it: `TypeCorrect`, `ActiveJobsExact`,
`CountersExact`, `WaitIsSound`; `CircuitLatches` is an action property: no step
leads out of "open and drained". For `NoJobIsLost` and `OnePlaceAlways` the second
invariant `Placed` follows each job: the queue, the workers and the results (in
the channel or delivered) share no job and hold none twice; they hold only
accepted jobs, and all of them while the context lives; and a job on its way into
the queue was not accepted before.

*EngineProofs, Run.* Every step of Run is a step of the pool or a panic of a
sequential check (`RunStepsPool`), so the pool's invariants carry over. `RunOrder`
relates the place of Run to the pool's flags: nothing is closed before the
deferred Stop, and by then the submit loop has ended, which is why no send meets
the closed channel (`ParallelNeverPanics`). `ParallelReport` and
`SequentialReport` relate the results collected to what the pool delivered and to
the index of the next check; with them `ReportAlwaysFaithful`,
`SequenceAlwaysReported` and `CompletionLeavesNothing`, the last by counting: as
many results as checks, each from another check, leave no job for anywhere else.

*CircuitBreakerProofs.* The properties are not inductive without
`ProbesAccounted`: in HALF_OPEN the probes admitted are covered by the successes
counted and the calls running, and the successes are below what some
configuration asks for. A spent budget and no running call then leave at least
`HalfOpenMaxRequests` successes that were still not enough, so some configuration
asks for more successes than there are probes, and without operator calls the one
in force does: `StrandingExplained`. `NoWayOut` is the action property that such a
breaker stays where it is unless an operator interferes. Also `TypeCorrect`,
`Nested`, `BelowThreshold` (in CLOSED the failures are zero or below some
configured threshold), `Balanced`, `WithinBudget`.

*EnhancedEngineProofs.* `RecoveryAccounted` is inductive with the types of the
recovery. For the Run, `RunType` says that the WaitGroup counts exactly the
goroutines before and inside the semaphore, which is why a closer that looks at
the WaitGroup alone closes in time; `OnePlace` that a check is waiting, executing,
sent, or collected, and in one of these places only; `InSequence` that
in sequence the checks done and the queue are apart and, without an error, make up
the list; `OnlyStarted` that only a check in the semaphore, or at the head of the
queue, is being executed, until a panic; `Returned` what a Run leaves when it ends. Results: `MetricsBalance`, `EveryCheckReported`, `AdmittedCallsReported`
(the breaker is told the outcome of exactly the calls it admitted), and
`BreakerUsedAsSpecified`: under the refinement that maps `guarded` to the
breaker's callers, every step of the engine is a step of `CircuitBreaker` or
leaves the breaker alone. What `CircuitBreakerProofs` shows of all behaviours of
the breaker therefore holds of the shared one; the prover cannot cite the
theorems of an instantiated module, so this last inference is the reader's.

*GracefulDegradationProofs.* `LockExact` ties the lock's fields to the places of
the goroutines: one writer excludes all readers, and a goroutine at a nested
acquisition still holds the lock it waits for. From this `NoOverride`: the write
lock SetManualLevel holds bars its own nested read lock, so it never comes to
assign the override, and so `changeDegradationLevel` is the only writer of
the level and appends the transition it makes (`Chained`). Results:
`HistoryAlwaysChains`, `FilterAlwaysNarrows`, `ManualOverrideNeverSet`.

*ResourceCleanupProofs.* `AllAccounted`: what a cleanup chose is its remaining
batches, the goroutines waiting and holding, the removed, the skipped and the
failed; a dry run removes nothing and nothing else skips. So outside a dry run an
empty rest and no failure mean that all were removed. `RecordsComplete` keeps that fact in the
history. `OneStopper`: at most one Shutdown, the one that set the flag, is on its
way to the close and the final cleanup. Results: `SuccessMeansComplete` (for dry
runs it says that nothing is removed, and no more), `ShutdownStopsOnce`.

*ProfilerProofs.* `RingShape` says where the index stands until the ring wraps (at
the entry stored last) and that no measurement is stored twice. A Store is
then an append to GetAll that drops its head when full, and a Clear empties it, so
each step is a step of `BoundedLog` or a stutter: `RingImplementsLog`.
`IndexExact` says that the category index lists the live measurements of a
category, each once, through the removal of the overwritten one. `Ahead` bounds
the stored by the counted plus the workers between Store and count, and
`Lifecycle` ties the collector's places to the number of Starts and Resets.
Results: `IndexAlwaysExact`, `StoredAlwaysCounted`, `CrashExplained`.

*SecurityValidatorProofs.* `CallsJustified` says of every rule a call has reached
which verdicts it has witnessed: a call among the rules is about a check that only
the lists decide on, and one past the allowlist has seen a moment at which the
policy admitted the check, whatever the lists say by the time it is admitted. Results: `ListsAlwaysConsistent`,
`VerdictsJustified`.

*EnhancedClientProofs.* `SlotsConserved` and the peak need `PendingBelow` (the
gauge, and every value a caller is about to compare with the peak, is at most
the high water mark) and `RetryBudget` (a backoff is begun only with a retry
left). The peak stays below `MaxConnections` because an activated caller holds a
slot. Results: `NoSlotLeaks`, `PeakNeverMissed`, and `ClosedStaysQuiet` as an
action property. The cache needs `Aged` (the entries are totally ordered by age)
and `StoreReady` (a call about to fill the cache has a response of a cached
operation): a finite nonempty total order has exactly one least element
(`OneOldest`), so a Set at the limit drops one entry for the one it adds. Results:
`CacheStaysBounded`, `TypeCorrect`.

`WaitIsSound`, `PeakNeverMissed`, `NoWayOut`, `ManualOverrideNeverSet`,
`BreakerUsedAsSpecified`, `CrashExplained` and the breaker's `TypeCorrect` are proved and not checked again by a run.

## 6. Only model-checked

Liveness (both `RunReturns`, `WorkersExit`, `AcceptedChecksCollected`,
`LockServed`, `LevelFollowsHealth`, `CleanupsReturn`, `LoopStops`, `CallsReturn`)
is out of the prover's reach: it rests on fairness and so on ENABLED. It is checked
on the instances of section 3 only. Every safety property of a passing run is
also a theorem. The violations are counterexamples and need no proof.

## 7. Findings

Ten disagreements between the code and what it says of itself, each with the run
or the configuration that gives the trace:

1. **A completed Run can miss a check** (`engine_missing_check`,
   `worker_pool.go:269`): Submit's deferred cancel ends the context of the job it
   queued; the limiter then refuses the job and the engine drops the empty result.
2. **Stop is not graceful to a concurrent Submit** (`MCWorkerPoolStop.cfg`,
   `worker_pool.go:279`): Submit tests `stopped` and sends later; a Stop in between
   closes the channel. The engine is its pool's only submitter and calls Stop after
   its Submits, so a Run does not meet it (theorem `ParallelNeverPanics`).
3. **A panicking check ends a sequential Run and the process** (`MCEnginePanic.cfg`,
   `engine.go:459`): runCheckSafely recovers, returns nil in spite of "never nil"
   (line 483), and runSequential dereferences it.
4. **An interrupted parallel Run returns no partial results**
   (`MCEngineInterrupted.cfg`, `engine.go:370`), against lines 262-263.
5. **The default circuit breaker strands itself** (`MCCircuitBreakerStranded.cfg`,
   `circuit_breaker.go:244`): two probes, three successes asked for, and nothing
   refills the budget. It is then refused for ever (theorem `NoWayOut`).
6. **The enhanced engine's breaker opens on success** (`enhanced_engine_built`,
   `enhanced_engine.go:440`): the recovery configuration has no FailureThreshold,
   and a threshold of zero is met by no failures at all (`circuit_breaker.go:450`).
7. **GracefulDegradation can hang** (`degradation_hang`,
   `graceful_degradation.go:484`, `:350`): two methods take the lock again through
   GetCurrentLevel while they hold it, while the type is documented as safe for
   concurrent use (line 88). As a consequence no manual override ever takes effect
   (theorem `ManualOverrideNeverSet`), and the enhanced engine's Run can hang at
   `enhanced_engine.go:514`.
8. **The recovery settings are ignored** (`MCGracefulDegradationRecovery.cfg`,
   `graceful_degradation.go:636`): the level improves with EnableAutoRecovery off;
   RecoveryStabilityPeriod and ConservativeRecovery are not read either.
9. **A Reset of the profiler can end the process** (`MCProfilerCrash.cfg`,
   `performance_profiler.go:653`): it replaces a mutex that others wait for,
   against "All operations are concurrent-safe" (`docs/performance-profiling.md:206`).
10. **Shutdown's cleanup may be a dry run** (`MCResourceCleanupShutdown.cfg`,
    `resource_cleanup.go:724`): the configuration overrides the operation's own
    DryRun, which line 464 sets to false with the comment "Never dry run on
    shutdown"; it is recorded as a real success.

Observations made while modelling, without a run of their own:

- activeJobs drops before the job is counted (`worker_pool.go:354`), so the
  counters lag behind WaitForCompletion.
- A late success in OPEN starts probing early (`circuit_breaker.go:286`).
- A response read before InvalidateCache is stored after it
  (`client_enhanced.go:201`).
- The read of the output in ExecInContainer (`client_enhanced.go:371`) is bounded
  by no context; `CallsReturn` assumes that it ends.
- With WorkerCount 0 a parallel Run of the enhanced engine never returns
  (`enhanced_engine.go:578`), and a panicking check ends the process
  (`enhanced_engine.go:681`); `RunReturns` excludes both by name.
- Test mode is read without the lock, and a switch during a validation can decide
  it either way; `VerdictJustified` leaves these calls out. The audit log can hold
  a denial by a lesser rule for a check that was admitted.
- The profiler changes a measurement's labels after storing it
  (`performance_profiler.go:340`), and a second Start of the collector leads to a
  second close of its channel (`metrics_collector.go:72`).
  The theorem `CrashExplained` says that a Reset and a restart are the only ways
  to crash.

## 8. Not modelled, and the plan

Left out for good: the docker Client facade (forwards calls), the individual
network, DNS, connectivity and system checks (straight-line API calls; their
outcome is a choice), the command line, report formatting, benchmarks, error
wording and the docs server. The RateLimiter's UpdateConfig, ResetMetrics,
TryAcquire and Reserve have no caller in the program; only Wait is modelled, by
what it answers. Inside modelled components the statistics nothing reads
(durations, hit rates, memory figures, ClientMetrics snapshots, level counters)
and the enhanced engine's placeholders (health loop, assessments) are left out.

Left for later:

1. Properties for hazards that have none yet: a response stored after the
   invalidation it predates, the labels a profiled job gets after it is stored.
2. The theorems of `CircuitBreakerProofs` restated on the enhanced engine's own
   specification, so that the transfer through `BreakerUsedAsSpecified` is
   checked as well.
3. The RateLimiter's reconfiguration, should a caller of it appear.
