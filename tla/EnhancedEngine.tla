--------------------------- MODULE EnhancedEngine ---------------------------
(***************************************************************************)
(* EnhancedDiagnosticEngine.Run of internal/diagnostics/enhanced_engine.go *)
(* over ErrorRecovery and its circuit breaker.  In parallel a goroutine    *)
(* per check waits for the semaphore, executes its check with recovery and *)
(* sends a result or an error; a closer closes both channels when the      *)
(* WaitGroup is done and the collector drains them.  In sequence Run goes  *)
(* through the checks itself.  One Run is under way at a time.  A check is *)
(* its own caller of ErrorRecovery.                                        *)
(***************************************************************************)
EXTENDS ErrorRecovery, SequencesExt

CONSTANTS
    Daemon,         \* daemon_connectivity, the check shouldStopOnError stops for
    Filtered,       \* check sequences FilterChecks may leave
    WorkerCounts,   \* values of config.WorkerCount, which nothing validates
    MaxRuns         \* bound on the number of Runs

(* Every check is registered once, so no sequence names one twice.         *)
ASSUME EnhancedAssumption ==
    /\ \A f \in Filtered : f \in Seq(Callers) /\ IsInjective(f)
    /\ WorkerCounts \subseteq Nat /\ MaxRuns \in Nat

VARIABLES
    parallel, workerCount,  \* config.Parallel, config.WorkerCount
    recovers,       \* config.EnableErrorRecovery: errorRecovery is not nil
    rpc,            \* Run: "idle", "status", "hung", "parallel", "sequential",
                    \* "returned", "crashed"
    checks,         \* the checks of this Run, in order
    queue,          \* sequential: the checks still to execute
    wg,             \* parallel: goroutines that did not call wg.Done
    waiting,        \* parallel: goroutines before the semaphore
    sem,            \* parallel: goroutines that hold it
    resultsChan, errorsChan,    \* sent and not collected
    channelsOpen,   \* the closer has not closed them
    collected,      \* checks whose results this Run appended to e.results.Checks
    failures,       \* checks whose errors this Run collected
    runErr,         \* executionErr # nil
    runs            \* Runs begun

settings == <<parallel, workerCount, recovers>>
chanVars == <<wg, waiting, sem, resultsChan, errorsChan, channelsOpen>>
engineFrame == <<settings, rpc, checks, queue, chanVars, collected, failures, runErr, runs>>
vars == <<recoveryVars, engineFrame>>

Init ==
    /\ RecoveryInit
    /\ parallel \in BOOLEAN /\ workerCount \in WorkerCounts /\ recovers \in BOOLEAN
    /\ rpc = "idle" /\ checks = <<>> /\ queue = <<>>
    /\ wg = {} /\ waiting = {} /\ sem = {} /\ resultsChan = {} /\ errorsChan = {}
    /\ channelsOpen = FALSE
    /\ collected = {} /\ failures = {} /\ runErr = FALSE /\ runs = 0

-----------------------------------------------------------------------------
(* Run up to FilterChecks.                                                 *)
Run ==
    /\ rpc \in {"idle", "returned"} /\ runs < MaxRuns
    /\ runs' = runs + 1 /\ rpc' = "status"
    /\ checks' \in Filtered
    /\ collected' = {} /\ failures' = {} /\ runErr' = FALSE
    /\ UNCHANGED <<recoveryVars, settings, queue, chanVars>>

(* GetDegradationStatus reads its lock twice and never returns when a      *)
(* writer comes in between: see GracefulDegradation.                       *)
StatusHangs ==
    /\ rpc = "status" /\ rpc' = "hung"
    /\ UNCHANGED <<recoveryVars, settings, checks, queue, chanVars, collected, failures,
                   runErr, runs>>

(* It returns, or there is no degradation, and the checks start; in        *)
(* parallel with channels and a semaphore of their own.                    *)
StartChecks ==
    /\ rpc = "status"
    /\ IF parallel
       THEN /\ rpc' = "parallel" /\ UNCHANGED queue
            /\ wg' = ToSet(checks) /\ waiting' = ToSet(checks) /\ sem' = {}
            /\ resultsChan' = {} /\ errorsChan' = {} /\ channelsOpen' = TRUE
       ELSE rpc' = "sequential" /\ queue' = checks /\ UNCHANGED chanVars
    /\ UNCHANGED <<recoveryVars, settings, checks, collected, failures, runErr, runs>>

-----------------------------------------------------------------------------
(* executeCheckWithRecovery begins, and its call is over.                  *)
Begin(c) ==
    /\ phase' = [phase EXCEPT ![c] = IF recovers THEN "enter" ELSE "direct"]
    /\ attempt' = [attempt EXCEPT ![c] = 0]
    /\ lastError' = [lastError EXCEPT ![c] = "none"]
    /\ UNCHANGED <<breakerVars, recovery>>

Finish(c) ==
    /\ phase' = [phase EXCEPT ![c] = "idle"]
    /\ attempt' = [attempt EXCEPT ![c] = 0]
    /\ lastError' = [lastError EXCEPT ![c] = "none"]
    /\ UNCHANGED <<breakerVars, recovery>>

(* Without error recovery the check is called directly.                    *)
RunDirectly(c) ==
    /\ phase[c] = "direct" /\ rpc # "crashed"
    /\ \E b \in {"result", "error"} : phase' = [phase EXCEPT ![c] = b]
    /\ UNCHANGED <<breakerVars, attempt, lastError, recovery, engineFrame>>

(* A check panics: nothing between it and the goroutine recovers, and the  *)
(* process is gone with all its goroutines and channels.                   *)
CheckPanics(c) ==
    /\ phase[c] \in {"operation", "direct"} /\ rpc # "crashed"
    /\ rpc' = "crashed" /\ queue' = <<>>
    /\ wg' = {} /\ waiting' = {} /\ sem' = {} /\ resultsChan' = {} /\ errorsChan' = {}
    /\ channelsOpen' = FALSE
    /\ UNCHANGED <<recoveryVars, settings, checks, collected, failures, runErr, runs>>

-----------------------------------------------------------------------------
(* runWithErrorRecovery.  With no workers the semaphore has no room at all.*)
Acquire(c) ==
    /\ c \in waiting /\ Cardinality(sem) < workerCount
    /\ waiting' = waiting \ {c} /\ sem' = sem \cup {c}
    /\ Begin(c)
    /\ UNCHANGED <<settings, rpc, checks, queue, wg, resultsChan, errorsChan, channelsOpen,
                   collected, failures, runErr, runs>>

(* Both channels have room for every check.                                *)
Send(c) ==
    /\ c \in sem /\ phase[c] \in {"result", "error"}
    /\ IF phase[c] = "result"
       THEN resultsChan' = resultsChan \cup {c} /\ UNCHANGED errorsChan
       ELSE errorsChan' = errorsChan \cup {c} /\ UNCHANGED resultsChan
    /\ Finish(c)
    /\ UNCHANGED <<settings, rpc, checks, queue, wg, waiting, sem, channelsOpen, collected,
                   failures, runErr, runs>>

(* Seeded fault: after an error the semaphore is not released.             *)
FaultErrorKeepsSlot(c) ==
    /\ c \in wg \cap sem /\ phase[c] = "idle"
    /\ sem' = IF c \in errorsChan \cup failures THEN sem ELSE sem \ {c}
    /\ wg' = wg \ {c}
    /\ UNCHANGED <<recoveryVars, settings, rpc, checks, queue, waiting, resultsChan,
                   errorsChan, channelsOpen, collected, failures, runErr, runs>>

(* The deferred functions of the goroutine: <-semaphore and wg.Done.       *)
Leave(c) ==
    /\ c \in sem /\ phase[c] = "idle"
    /\ sem' = sem \ {c} /\ wg' = wg \ {c}
    /\ UNCHANGED <<recoveryVars, settings, rpc, checks, queue, waiting, resultsChan,
                   errorsChan, channelsOpen, collected, failures, runErr, runs>>

FaultClosesEarly ==
    /\ channelsOpen /\ waiting = {}
    /\ channelsOpen' = FALSE
    /\ UNCHANGED <<recoveryVars, settings, rpc, checks, queue, wg, waiting, sem, resultsChan,
                   errorsChan, collected, failures, runErr, runs>>

CloseChannels ==
    /\ channelsOpen /\ wg = {}
    /\ channelsOpen' = FALSE
    /\ UNCHANGED <<recoveryVars, settings, rpc, checks, queue, wg, waiting, sem, resultsChan,
                   errorsChan, collected, failures, runErr, runs>>

CollectResult(c) ==
    /\ rpc = "parallel" /\ c \in resultsChan
    /\ resultsChan' = resultsChan \ {c}
    /\ collected' = collected \cup {c}
    /\ UNCHANGED <<recoveryVars, settings, rpc, checks, queue, wg, waiting, sem, errorsChan,
                   channelsOpen, failures, runErr, runs>>

CollectError(c) ==
    /\ rpc = "parallel" /\ c \in errorsChan
    /\ errorsChan' = errorsChan \ {c}
    /\ failures' = failures \cup {c}
    /\ UNCHANGED <<recoveryVars, settings, rpc, checks, queue, wg, waiting, sem, resultsChan,
                   channelsOpen, collected, runErr, runs>>

CollectorEnds ==
    /\ rpc = "parallel" /\ ~channelsOpen /\ resultsChan = {} /\ errorsChan = {}
    /\ rpc' = "returned" /\ runErr' = (failures # {})
    /\ UNCHANGED <<recoveryVars, settings, checks, queue, chanVars, collected, failures,
                   runs>>

-----------------------------------------------------------------------------
(* runSequentialWithRecovery.                                              *)
NextCheck ==
    /\ rpc = "sequential" /\ queue # <<>> /\ \A c \in Callers : phase[c] = "idle"
    /\ Begin(Head(queue))
    /\ UNCHANGED <<settings, rpc, checks, queue, chanVars, collected, failures, runErr,
                   runs>>

(* shouldStopOnError(check, err): the context is not looked at after it.   *)
StopsAt(c) == phase[c] = "error" /\ c = Daemon

CheckDone(c) ==
    /\ rpc = "sequential" /\ phase[c] \in {"result", "error"}
    /\ IF phase[c] = "result"
       THEN collected' = collected \cup {c} /\ UNCHANGED failures
       ELSE failures' = failures \cup {c} /\ UNCHANGED collected
    /\ \E cancelled \in BOOLEAN :
          /\ queue' = IF StopsAt(c) \/ cancelled THEN <<>> ELSE Tail(queue)
          /\ runErr' = (failures' # {} \/ cancelled)
    /\ Finish(c)
    /\ UNCHANGED <<settings, rpc, checks, chanVars, runs>>

SequenceEnds ==
    /\ rpc = "sequential" /\ queue = <<>>
    /\ rpc' = "returned"
    /\ UNCHANGED <<recoveryVars, settings, checks, queue, chanVars, collected, failures,
                   runErr, runs>>

-----------------------------------------------------------------------------
Work ==
    \/ \E c \in Callers :
          \/ Acquire(c) \/ Send(c) \/ Leave(c) \/ CollectResult(c) \/ CollectError(c)
          \/ CheckDone(c) \/ RunDirectly(c)
          \/ RecoveryStep(c) /\ rpc # "crashed" /\ UNCHANGED engineFrame
    \/ StartChecks \/ CloseChannels \/ CollectorEnds \/ NextCheck \/ SequenceEnds

Next ==
    \/ Run \/ StatusHangs \/ Work
    \/ \E c \in Callers : CheckPanics(c)
    \/ TimePasses /\ UNCHANGED engineFrame

(* The goroutines run on, and an operation ends: checks heed the timeout   *)
(* of Run.                                                                 *)
Spec == Init /\ [][Next]_vars /\ WF_vars(Work)

-----------------------------------------------------------------------------
(* The state is well typed, and a Run that returns no error has the result *)
(* of every check it set out to execute, in parallel and in sequence; one  *)
(* that ran in parallel has a result or an error of each, never both.      *)
NoCheckForgotten ==
    /\ state \in {"CLOSED", "OPEN", "HALF_OPEN"} /\ Cardinality(sem) <= workerCount
    /\ collected \cap failures = {}
    /\ rpc = "returned" =>
         /\ ~runErr => collected = ToSet(checks)
         /\ parallel => collected \cup failures = ToSet(checks)

(* A Run returns, however few its workers, unless GetDegradationStatus     *)
(* hangs, a check panics or config.WorkerCount is zero.                    *)
RunReturns ==
    rpc = "status" ~> \/ rpc \in {"returned", "hung", "crashed"}
                      \/ rpc = "parallel" /\ workerCount = 0
=============================================================================
