-------------------------- MODULE ResourceCleanup --------------------------
(***************************************************************************)
(* ResourceCleanupManager of internal/diagnostics/resource_cleanup.go.     *)
(*                                                                         *)
(* A cleanup lists resources under rcm.mu, then works on the list without  *)
(* it: batch by batch, one goroutine per resource, a semaphore per batch.  *)
(* Callers run cleanups at the same time as the periodic loop, as each     *)
(* other, and as TrackResource and UntrackResource.  A resource is a       *)
(* pointer whose flags are constants; nothing writes LastUsed, so both of  *)
(* its time stamps are old or neither is.                                  *)
(***************************************************************************)
EXTENDS Integers, Sequences, FiniteSets, FiniteSetsExt

CONSTANTS
    Callers, Loop,      \* goroutines that call the manager; periodicCleanupLoop
    IDs, Resources,     \* resource IDs, and the TrackedResources that carry them
    IDOf, DependsOn,    \* resource.ID and resource.DependsOn
    Protected, Diagnostic, Temporary,   \* the resources with these flags
    Old,                \* those used longer ago than ResourceMaxAge
    NoResource,         \* what an ID that is not tracked maps to
    AutoCleanup, PreserveDebugData, MaxConcurrentCleanups, CleanupBatchSize,
    MaxHistory,         \* 100 in recordCleanupOperation
    MaxCleanups         \* bound: cleanups begun other than by Shutdown

Procs == Callers \cup {Loop}
ErrorTypes == {"resource", "connection", "network", "other"}

ASSUME CleanupAssumption ==
    /\ Loop \notin Callers /\ NoResource \notin Resources
    /\ IDOf \in [Resources -> IDs] /\ DependsOn \in [Resources -> SUBSET IDs]
    /\ UNION {Protected, Diagnostic, Temporary, Old} \subseteq Resources
    /\ {AutoCleanup, PreserveDebugData} \subseteq BOOLEAN
    /\ {MaxConcurrentCleanups, CleanupBatchSize, MaxHistory} \subseteq Nat \ {0}
    /\ MaxCleanups \in Nat

VARIABLES
    DryRun,             \* config.DryRun
    ClientAvailable,    \* rcm.client # nil; the only constructor leaves it nil
    tracked,            \* the three tracking maps, as one
    metrics,            \* TotalCleanups, SuccessfulCleanups, FailedCleanups
    history,            \* cleanupHistory: DryRun, Success, Resources, and the
                        \* resources of Results whose Action is ActionRemoved
    stopped, stopClosed,    \* rcm.stopped; stopCh is closed
    panicked,           \* stopCh was closed twice
    pc,                 \* the place of each goroutine
    op,                 \* the cleanup it performs
    begun               \* cleanups begun so far, other than by Shutdown

settings   == <<DryRun, ClientAvailable>>
recordVars == <<metrics, history>>
stopVars   == <<stopped, stopClosed, panicked>>
vars       == <<settings, tracked, recordVars, stopVars, pc, op, begun>>

(* resourcesToClean (chosen), those of later batches (todo), the batch     *)
(* before and inside the semaphore, and the results by Action.             *)
NoOperation ==
    [trigger |-> "none", chosen |-> {}, todo |-> {}, waiting |-> {}, holding |-> {},
     removed |-> {}, skipped |-> {}, failed |-> {}, cancelled |-> FALSE]

Init ==
    /\ DryRun \in BOOLEAN /\ ClientAvailable \in BOOLEAN
    /\ tracked = [i \in IDs |-> NoResource]
    /\ metrics = [total |-> 0, successful |-> 0, failed |-> 0] /\ history = <<>>
    /\ stopped = FALSE /\ stopClosed = FALSE /\ panicked = FALSE
    /\ pc = [p \in Procs |-> "idle"] /\ op = [p \in Procs |-> NoOperation]
    /\ begun = 0

-----------------------------------------------------------------------------
(* Tracking.                                                               *)
getAllTrackedResources == {tracked[i] : i \in IDs} \ {NoResource}

getTemporaryResources == getAllTrackedResources \cap Temporary

resourceExists(i) == tracked[i] # NoResource

isOrphanedResource(r) == r \in Old \/ \E i \in DependsOn[r] : ~resourceExists(i)

TrackResource(r) ==
    /\ tracked' = [tracked EXCEPT ![IDOf[r]] = r]
    /\ UNCHANGED <<settings, recordVars, stopVars, pc, op, begun>>

UntrackResource(i) ==
    /\ tracked' = [tracked EXCEPT ![i] = NoResource]
    /\ UNCHANGED <<settings, recordVars, stopVars, pc, op, begun>>

-----------------------------------------------------------------------------
(* What a cleanup works on.  Every strategy cleans temporary resources;    *)
(* CleanupRunning has no effect.                                           *)
selectCleanupStrategy(e) ==
    [orphaned |-> e # "other", expired |-> e # "connection"]

manualStrategy == [orphaned |-> TRUE, expired |-> TRUE]

getResourcesForCleanup(strategy) ==
    {r \in getAllTrackedResources :
        /\ \/ r \in Temporary
           \/ strategy.expired /\ r \in Old
           \/ strategy.orphaned /\ isOrphanedResource(r)
        /\ r \notin Protected
        /\ ~(r \in Diagnostic /\ PreserveDebugData)}

Begin(p, t, resources) ==
    /\ pc[p] = "idle" => begun < MaxCleanups
    /\ begun' = IF pc[p] = "idle" THEN begun + 1 ELSE begun
    /\ op' = [op EXCEPT ![p] = [NoOperation EXCEPT
                  !.trigger = t, !.chosen = resources, !.todo = resources]]
    /\ pc' = [pc EXCEPT ![p] = "batches"]
    /\ UNCHANGED <<settings, tracked, recordVars, stopVars>>

CleanupAfterError(p) ==
    /\ pc[p] = "idle" /\ AutoCleanup
    /\ \E e \in ErrorTypes :
          Begin(p, "error_recovery", getResourcesForCleanup(selectCleanupStrategy(e)))

PerformCleanup(p) ==
    pc[p] = "idle" /\ Begin(p, "manual", getResourcesForCleanup(manualStrategy))

PerformAggressiveCleanup(p) ==
    pc[p] = "idle" /\ Begin(p, "emergency", getAllTrackedResources)

PerformFinalCleanup(p) ==
    pc[p] \in {"idle", "final"} /\ Begin(p, "shutdown", getTemporaryResources)

-----------------------------------------------------------------------------
(* executeCleanup and processBatch.  The maps are listed in any order, so  *)
(* a batch is any part of the list of the right size.                      *)
StartBatch(p) ==
    /\ pc[p] = "batches" /\ op[p].todo # {}
    /\ \E batch \in kSubset(Min({CleanupBatchSize, Cardinality(op[p].todo)}), op[p].todo) :
          op' = [op EXCEPT ![p].waiting = batch, ![p].todo = @ \ batch]
    /\ pc' = [pc EXCEPT ![p] = "batch"]
    /\ UNCHANGED <<settings, tracked, recordVars, stopVars, begun>>

AcquireSemaphore(p, r) ==
    /\ r \in op[p].waiting
    /\ Cardinality(op[p].holding) < MaxConcurrentCleanups
    /\ op' = [op EXCEPT ![p].waiting = @ \ {r}, ![p].holding = @ \cup {r}]
    /\ UNCHANGED <<settings, tracked, recordVars, stopVars, pc, begun>>

(* What cleanupResource reports of a resource; the removals themselves are *)
(* placeholders that fail only for want of a client.                       *)
ActionTaken ==
    IF DryRun THEN "skipped" ELSE IF ClientAvailable THEN "removed" ELSE "failed"

FaultFailureKeepsSemaphore(p, r) ==
    /\ r \in op[p].holding \ op[p].failed
    /\ op' = [op EXCEPT ![p].holding = IF ActionTaken = "failed" THEN @ ELSE @ \ {r},
                        ![p][ActionTaken] = @ \cup {r}]
    /\ UNCHANGED <<settings, tracked, recordVars, stopVars, pc, begun>>

(* A dry run reports success and leaves the resource tracked.              *)
cleanupResource(p, r) ==
    /\ r \in op[p].holding
    /\ op' = [op EXCEPT ![p].holding = @ \ {r}, ![p][ActionTaken] = @ \cup {r}]
    /\ tracked' = IF ActionTaken = "removed"
                  THEN [tracked EXCEPT ![IDOf[r]] = NoResource] ELSE tracked
    /\ UNCHANGED <<settings, recordVars, stopVars, pc, begun>>

FaultCancelForgotten(p) ==
    /\ pc[p] = "batch" /\ op[p].waiting = {} /\ op[p].holding = {}
    /\ \/ pc' = [pc EXCEPT ![p] = "batches"] /\ UNCHANGED op
       \/ pc' = [pc EXCEPT ![p] = "record"] /\ UNCHANGED op
    /\ UNCHANGED <<settings, tracked, recordVars, stopVars, begun>>

(* Between batches the context may be done: executeCleanup then returns    *)
(* its error and leaves the metrics alone.                                 *)
BatchDone(p) ==
    /\ pc[p] = "batch" /\ op[p].waiting = {} /\ op[p].holding = {}
    /\ \/ pc' = [pc EXCEPT ![p] = "batches"] /\ UNCHANGED op
       \/ pc' = [pc EXCEPT ![p] = "record"] /\ op' = [op EXCEPT ![p].cancelled = TRUE]
    /\ UNCHANGED <<settings, tracked, recordVars, stopVars, begun>>

updateCleanupMetrics(p) ==
    /\ pc[p] = "batches" /\ op[p].todo = {}
    /\ metrics' = IF op[p].failed = {}
                  THEN [metrics EXCEPT !.total = @ + 1, !.successful = @ + 1]
                  ELSE [metrics EXCEPT !.total = @ + 1, !.failed = @ + 1]
    /\ pc' = [pc EXCEPT ![p] = "record"]
    /\ UNCHANGED <<settings, tracked, history, stopVars, op, begun>>

recordCleanupOperation(p) ==
    /\ pc[p] = "record"
    /\ LET record == [dryRun |-> DryRun /\ op[p].trigger # "shutdown",
                      success |-> op[p].failed = {} /\ ~op[p].cancelled,
                      resources |-> op[p].chosen, removed |-> op[p].removed]
           all == Append(history, record)
       IN  history' = SubSeq(all, IF Len(all) > MaxHistory THEN 2 ELSE 1, Len(all))
    /\ pc' = [pc EXCEPT ![p] = "idle"]
    /\ op' = [op EXCEPT ![p] = NoOperation]
    /\ UNCHANGED <<settings, tracked, metrics, stopVars, begun>>

-----------------------------------------------------------------------------
FaultStoppedSetLate(p) ==
    /\ pc[p] = "idle" /\ ~stopClosed
    /\ stopped' = TRUE
    /\ pc' = [pc EXCEPT ![p] = "close"]
    /\ UNCHANGED <<settings, tracked, recordVars, stopClosed, panicked, op, begun>>

Shutdown(p) ==
    /\ pc[p] = "idle" /\ ~stopped
    /\ stopped' = TRUE
    /\ pc' = [pc EXCEPT ![p] = "close"]
    /\ UNCHANGED <<settings, tracked, recordVars, stopClosed, panicked, op, begun>>

FaultLoopNotStopped(p) ==
    /\ pc[p] = "close"
    /\ pc' = [pc EXCEPT ![p] = "final"]
    /\ UNCHANGED <<settings, tracked, recordVars, stopVars, op, begun>>

CloseStop(p) ==
    /\ pc[p] = "close"
    /\ stopClosed' = TRUE /\ panicked' = stopClosed
    /\ pc' = [pc EXCEPT ![p] = "final"]
    /\ UNCHANGED <<settings, tracked, recordVars, stopped, op, begun>>

periodicCleanupLoopEnds ==
    /\ pc[Loop] = "idle" /\ stopClosed
    /\ pc' = [pc EXCEPT ![Loop] = "ended"]
    /\ UNCHANGED <<settings, tracked, recordVars, stopVars, op, begun>>

Proceed(p) ==
    \/ StartBatch(p) \/ BatchDone(p)
    \/ \E r \in Resources : AcquireSemaphore(p, r) \/ cleanupResource(p, r)
    \/ updateCleanupMetrics(p) \/ recordCleanupOperation(p)

Next ==
    \/ \E p \in Procs : Proceed(p)
    \/ \E p \in Callers :
          \/ CleanupAfterError(p) \/ PerformAggressiveCleanup(p)
          \/ PerformFinalCleanup(p) \/ Shutdown(p) \/ CloseStop(p)
    \/ \E p \in Procs : PerformCleanup(p)
    \/ periodicCleanupLoopEnds
    \/ \E r \in Resources : TrackResource(r)
    \/ \E i \in IDs : UntrackResource(i)

(* The goroutines run on; the select of the loop picks at random among its *)
(* ready cases, so that a closed stopCh is taken in the end.               *)
Fairness ==
    /\ \A p \in Procs : WF_vars(Proceed(p))
    /\ \A p \in Callers : WF_vars(CloseStop(p))
    /\ SF_vars(periodicCleanupLoopEnds)

Spec == Init /\ [][Next]_vars /\ Fairness

-----------------------------------------------------------------------------
(* The state is well typed.  With DryRun set no cleanup removes anything;  *)
(* otherwise an operation recorded as successful removed, in all its       *)
(* batches, every resource it set out to clean.                            *)
SuccessIsComplete ==
    /\ tracked \in [IDs -> Resources \cup {NoResource}]
    /\ pc \in [Procs -> {"idle", "batches", "batch", "record", "close", "final", "ended"}]
    /\ Len(history) <= MaxHistory
    /\ metrics.total = metrics.successful + metrics.failed
    /\ \A i \in 1..Len(history) :
          /\ DryRun => history[i].removed = {}
          /\ ~DryRun /\ history[i].success => history[i].removed = history[i].resources

(* "Never dry run on shutdown": an operation recorded as successful and    *)
(* not as a dry run removed what it set out to clean.                      *)
SuccessMeansRemoved ==
    \A i \in 1..Len(history) :
        history[i].success /\ ~history[i].dryRun
            => history[i].removed = history[i].resources

(* Concurrent calls of Shutdown close stopCh once, and Shutdown begins one *)
(* final cleanup.                                                          *)
StopsOnce ==
    /\ ~panicked
    /\ Cardinality({p \in Callers : pc[p] \in {"close", "final"}}) <= 1

(* Every cleanup returns: no batch waits for ever on its semaphore.        *)
CleanupsReturn ==
    \A p \in Procs : pc[p] \in {"batches", "batch", "record"} ~> pc[p] = "idle"

(* After Shutdown the periodic loop ends.                                  *)
LoopStops == stopped ~> pc[Loop] = "ended"
=============================================================================
