------------------------------ MODULE Profiler ------------------------------
(***************************************************************************)
(* PerformanceProfiler (performance_profiler.go) over its TimingStorage,   *)
(* with the MetricsCollector (metrics_collector.go) it starts and stops.   *)
(*                                                                         *)
(* Worker goroutines profile jobs, checks and API calls: run the           *)
(* operation, store its measurement, count it, then label the measurement. *)
(* One owner starts, stops, enables, disables and resets the profiler.     *)
(* Reset replaces the metrics while it holds the old metrics' mutex; a     *)
(* goroutine that was waiting for that mutex then unlocks the new one,     *)
(* which is not locked, and the Go runtime ends the process.               *)
(***************************************************************************)
EXTENDS TimingStorage

CONSTANTS
    Collector,      \* the goroutine of collect
    MaxStarts, MaxResets    \* bounds on the owner's calls

ASSUME ProfilerAssumption ==
    /\ Collector \notin Workers
    /\ MaxStarts \in Nat /\ MaxResets \in Nat

VARIABLES
    enabled, started,       \* p.enabled, p.started
    totalOperations,        \* p.metrics.TotalOperations
    upc, kind,              \* each worker: place in its call, and which call
    opc,                    \* the owner: "idle", "joining", "locked", "swapped"
    waiters,                \* goroutines waiting for the mutex Reset holds
    starting,               \* goroutines about to call collector.Start
    running, stopClosed,    \* mc.running, mc.stopChan is closed
    collecting,             \* goroutines in collect
    starts, resets,         \* calls of Start and Reset so far
    crashed                 \* a panic or a fatal error ended the process

workerVars    == <<upc, kind>>
collectorVars == <<starting, running, stopClosed, collecting>>
ownerVars     == <<enabled, started, opc, starts, resets>>
profilerVars  == <<storageVars, timing, totalOperations, workerVars, waiters,
                   collectorVars, ownerVars, crashed>>

Kinds == {"check", "job", "call"}
ASSUME KindsAreCategories == Categories = Kinds

Up == ~crashed /\ UNCHANGED crashed

Init ==
    /\ StorageInit
    /\ enabled = TRUE /\ started = FALSE
    /\ totalOperations = 0
    /\ upc = [u \in Workers |-> "idle"]
    /\ kind = [u \in Workers |-> "call"]
    /\ opc = "idle" /\ waiters = {}
    /\ starting = 0 /\ running = FALSE /\ stopClosed = FALSE
    /\ collecting = 0
    /\ starts = 0 /\ resets = 0
    /\ crashed = FALSE

-----------------------------------------------------------------------------
(* The metrics' mutex.  All sections but Reset's are single steps.         *)
MetricsFree(p) == opc # "locked" /\ p \notin waiters

(* collectSample reads the metrics; its samples are left out.              *)
collectSample == collecting > 0

UsesMetrics(p) == IF p = Collector THEN collectSample ELSE upc[p] \in {"count", "note"}

MetricsWait(p) ==
    /\ Up
    /\ UsesMetrics(p) /\ opc = "locked" /\ p \notin waiters
    /\ waiters' = waiters \cup {p}
    /\ UNCHANGED <<storageVars, timing, totalOperations, workerVars, collectorVars,
                   ownerVars>>

UnlockOfUnlocked(p) ==
    /\ ~crashed
    /\ p \in waiters /\ opc \notin {"locked", "swapped"}
    /\ crashed' = TRUE
    /\ UNCHANGED <<storageVars, timing, totalOperations, workerVars, waiters,
                   collectorVars, ownerVars>>

-----------------------------------------------------------------------------
(* ProfileOperation and its three callers.  A disabled profiler runs the   *)
(* operation alone; one that is not started does too, but ProfileCheck and *)
(* ProfileWorkerJob still go on to their own metrics.                      *)
workerFrame == <<waiters, collectorVars, ownerVars>>

(* The call returns.                                                       *)
Leave(u) ==
    /\ upc' = [upc EXCEPT ![u] = "idle"]
    /\ kind' = [kind EXCEPT ![u] = "call"]

Profile(u, k) ==
    /\ Up
    /\ upc[u] = "idle" /\ enabled
    /\ k = "call" => started
    /\ Len(timing) < MaxTimings
    /\ kind' = [kind EXCEPT ![u] = k]
    /\ upc' = [upc EXCEPT ![u] = IF started THEN "run" ELSE "note"]
    /\ UNCHANGED <<storageVars, timing, totalOperations, workerFrame>>

StoreTiming(u) ==
    /\ Up
    /\ upc[u] = "run" /\ Len(timing) < MaxTimings
    /\ LET fresh == [category |-> kind[u], check |-> NoCheck, worker |-> 0]
       IN  /\ Store(Len(timing) + 1, fresh)
           /\ timing' = Append(timing, fresh)
    /\ upc' = [upc EXCEPT ![u] = "count"]
    /\ UNCHANGED <<totalOperations, kind, workerFrame>>

FaultCountsChecksOnly(u) ==
    /\ Up
    /\ upc[u] = "count" /\ MetricsFree(u)
    /\ totalOperations' = totalOperations + IF kind[u] = "call" THEN 0 ELSE 1
    /\ IF kind[u] = "call" THEN Leave(u)
       ELSE upc' = [upc EXCEPT ![u] = "note"] /\ UNCHANGED kind
    /\ UNCHANGED <<storageVars, timing, workerFrame>>

updateMetrics(u) ==
    /\ Up
    /\ upc[u] = "count" /\ MetricsFree(u)
    /\ totalOperations' = totalOperations + 1
    /\ IF kind[u] = "call" THEN Leave(u)
       ELSE upc' = [upc EXCEPT ![u] = "note"] /\ UNCHANGED kind
    /\ UNCHANGED <<storageVars, timing, workerFrame>>

(* updateCheckMetrics or updateWorkerMetrics; a job with a result goes on. *)
NoteRun(u) ==
    /\ Up
    /\ upc[u] = "note" /\ MetricsFree(u)
    /\ \/ Leave(u)
       \/ kind[u] = "job" /\ upc' = [upc EXCEPT ![u] = "label"] /\ UNCHANGED kind
    /\ UNCHANGED <<storageVars, timing, totalOperations, workerFrame>>

(* The fields of the latest measurement, which need not be the worker's    *)
(* own, are set without the storage's lock and without its indexes.        *)
LabelLatest(u) ==
    /\ Up
    /\ upc[u] = "label"
    /\ IF measurements = <<>> THEN UNCHANGED timing
       ELSE \E k \in CheckNames :
               timing' = [timing EXCEPT ![GetLatest].check = k, ![GetLatest].worker = u]
    /\ Leave(u)
    /\ UNCHANGED <<storageVars, totalOperations, workerFrame>>

-----------------------------------------------------------------------------
(* The owner.                                                              *)
ownerFrame == <<storageVars, timing, totalOperations, workerVars, waiters>>

SetEnabled ==
    /\ Up
    /\ opc = "idle"
    /\ enabled' = ~enabled
    /\ UNCHANGED <<ownerFrame, collectorVars, started, opc, starts, resets>>

(* collector.Start runs in a goroutine of its own.                         *)
Start ==
    /\ Up
    /\ opc = "idle" /\ enabled /\ ~started /\ starts < MaxStarts
    /\ started' = TRUE
    /\ starts' = starts + 1
    /\ starting' = starting + 1
    /\ UNCHANGED <<ownerFrame, running, stopClosed, collecting, enabled,
                   opc, resets>>

(* Stop calls collector.Stop, which does nothing unless running, and else  *)
(* closes the channel (a panic if closed before) and waits for collect.    *)
Stop ==
    /\ ~crashed
    /\ opc = "idle" /\ started
    /\ started' = FALSE
    /\ running' = FALSE
    /\ stopClosed' = (stopClosed \/ running)
    /\ crashed' = (running /\ stopClosed)
    /\ opc' = IF running THEN "joining" ELSE "idle"
    /\ UNCHANGED <<ownerFrame, starting, collecting, enabled, starts, resets>>

StopJoined ==
    /\ Up
    /\ opc = "joining" /\ collecting = 0
    /\ opc' = "idle"
    /\ UNCHANGED <<ownerFrame, collectorVars, enabled, started, starts, resets>>

ResetLock ==
    /\ Up
    /\ opc = "idle" /\ resets < MaxResets
    /\ opc' = "locked"
    /\ resets' = resets + 1
    /\ UNCHANGED <<ownerFrame, collectorVars, enabled, started, starts>>

ResetSwap ==
    /\ Up
    /\ opc = "locked"
    /\ totalOperations' = 0
    /\ opc' = "swapped"
    /\ UNCHANGED <<storageVars, timing, workerVars, waiters, collectorVars, enabled,
                   started, starts, resets>>

ResetClear ==
    /\ Up
    /\ opc = "swapped"
    /\ Cleared
    /\ opc' = "idle"
    /\ UNCHANGED <<timing, totalOperations, workerVars, waiters, collectorVars,
                   enabled, started, starts, resets>>

-----------------------------------------------------------------------------
(* MetricsCollector.                                                       *)
CollectorStart ==
    /\ Up
    /\ starting > 0
    /\ starting' = starting - 1
    /\ running' = TRUE
    /\ collecting' = IF running THEN collecting ELSE collecting + 1
    /\ UNCHANGED <<ownerFrame, ownerVars, stopClosed>>

CollectorExit ==
    /\ Up
    /\ collecting > 0 /\ stopClosed /\ Collector \notin waiters
    /\ collecting' = collecting - 1
    /\ UNCHANGED <<ownerFrame, ownerVars, starting, running, stopClosed>>

WorkerStep(u) == \/ StoreTiming(u) \/ updateMetrics(u) \/ NoteRun(u)
                 \/ LabelLatest(u)

Next ==
    \/ \E u \in Workers : WorkerStep(u) \/ \E k \in Kinds : Profile(u, k)
    \/ \E p \in Workers \cup {Collector} : MetricsWait(p) \/ UnlockOfUnlocked(p)
    \/ SetEnabled \/ Start \/ Stop \/ StopJoined
    \/ ResetLock \/ ResetSwap \/ ResetClear
    \/ CollectorStart \/ CollectorExit

Spec == Init /\ [][Next]_profilerVars

-----------------------------------------------------------------------------
(* Outside a Reset every stored measurement is counted or about to be: the *)
(* storage and the metrics are cleared in two steps, and operations that   *)
(* straddle them must not leave more measurements than operations.         *)
StoredCounted ==
    opc \notin {"locked", "swapped"} =>
        Len(measurements) <=
            totalOperations + Cardinality({u \in Workers : upc[u] = "count"})

(* What the profiler's users can rely on instead of NeverCrashes: one      *)
(* Start and one Stop are safe at any moment, also before the collector's  *)
(* goroutine has run; it takes a Reset, or a Stop after a restart, to end  *)
(* the process.                                                            *)
CrashNeedsRestartOrReset == crashed => starts > 1 \/ resets > 0

(* "All operations are concurrent-safe": no interleaving of profiling      *)
(* calls, the collector and the owner's calls ends the process.            *)
NeverCrashes == ~crashed
=============================================================================
