---------------------------- MODULE ErrorRecovery ----------------------------
(***************************************************************************)
(* ErrorRecovery.ExecuteWithRecovery of internal/diagnostics/              *)
(* error_recovery.go with the RetryPolicy.Execute it calls                 *)
(* (retry_policy.go), around the circuit breaker it shares between all its *)
(* callers.  The breaker's methods and the sections under er.mu are one    *)
(* step each; callers interleave between them.                             *)
(*                                                                         *)
(* An error is named by what its message matches.  Delays are left out, as *)
(* are the retry counters, plain fields which no decision reads.           *)
(***************************************************************************)
EXTENDS Integers, Sequences, FiniteSets

CONSTANTS
    Callers,        \* goroutines that call ExecuteWithRecovery
    Configs,        \* the breaker's configurations
    RequestBound,   \* bound on the breaker's requests
    Errors,         \* errors an operation may fail with
    MaxRetries,     \* config.MaxRetries
    MayAbort        \* {TRUE, FALSE} if the policy has a budget or heeds the context

ErrorNames == {"connection refused", "permission denied", "deadline exceeded",
               "no space left", "network not found", "no route to host", "other"}

ASSUME RecoveryAssumption ==
    /\ IsFiniteSet(Callers)
    /\ Errors \subseteq ErrorNames /\ Errors # {}
    /\ MaxRetries \in Nat
    /\ FALSE \in MayAbort /\ MayAbort \subseteq BOOLEAN

VARIABLES
    state, config, failureCount, successCount, halfOpenRequestCount,
    consecutiveFailures, totalRequests, totalFailures, totalSuccesses,
    stateTransitions, recoveryDue, resetDue,    \* the breaker: see CircuitBreaker
    guarded,        \* "running" from CanExecute to the Record call
    phase,          \* the place of each caller in ExecuteWithRecovery
    attempt,        \* retries made by its RetryPolicy.Execute
    lastError,      \* the error it works on
    recovery        \* er.metrics

breakerVars  == <<state, config, failureCount, successCount, halfOpenRequestCount,
                  consecutiveFailures, totalRequests, totalFailures, totalSuccesses,
                  stateTransitions, recoveryDue, resetDue, guarded>>
recoveryVars == <<breakerVars, phase, attempt, lastError, recovery>>

Breaker == INSTANCE CircuitBreaker WITH pc <- guarded, adminOps <- 0, AdminBound <- 0

RecoveryInit ==
    /\ Breaker!Init
    /\ phase = [c \in Callers |-> "idle"]
    /\ attempt = [c \in Callers |-> 0]
    /\ lastError = [c \in Callers |-> "none"]
    /\ recovery = [operations |-> 0, blocks |-> 0, failures |-> 0, successes |-> 0,
                   recovered |-> 0, unrecovered |-> 0]

Go(c, p) == phase' = [phase EXCEPT ![c] = p]
Count(field) == recovery' = [recovery EXCEPT ![field] = @ + 1]

-----------------------------------------------------------------------------
(* ExecuteWithRecovery up to the retry policy.                             *)
EnterRecovery(c) ==
    /\ phase[c] = "enter"
    /\ Count("operations") /\ Go(c, "admit")
    /\ UNCHANGED <<breakerVars, attempt, lastError>>

FaultIgnoresVerdict(c) ==
    /\ phase[c] = "admit"
    /\ Breaker!CanExecute(c)
    /\ Go(c, "operation")
    /\ UNCHANGED <<attempt, lastError, recovery>>

CanExecute(c) ==
    /\ phase[c] = "admit"
    /\ Breaker!CanExecute(c)
    /\ Go(c, IF guarded'[c] = "running" THEN "operation" ELSE "blocked")
    /\ UNCHANGED <<attempt, lastError, recovery>>

Blocked(c) ==
    /\ phase[c] = "blocked"
    /\ Count("blocks") /\ Go(c, "error")
    /\ UNCHANGED <<breakerVars, attempt, lastError>>

-----------------------------------------------------------------------------
(* RetryPolicy.Execute.  Operations return plain errors, which are judged  *)
(* by their message.                                                       *)
isRetryable(e) == e \notin {"permission denied", "network not found"}

OperationFails(c, e) ==
    /\ phase[c] = "operation"
    /\ lastError' = [lastError EXCEPT ![c] = e]
    /\ Go(c, IF isRetryable(e) /\ attempt[c] < MaxRetries THEN "backoff" ELSE "failed")
    /\ UNCHANGED <<breakerVars, attempt, recovery>>

OperationSucceeds(c) ==
    /\ phase[c] = "operation"
    /\ Go(c, "succeeded")
    /\ UNCHANGED <<breakerVars, attempt, lastError, recovery>>

(* The budget or the context may end the wait, and with it the loop.       *)
Backoff(c) ==
    /\ phase[c] = "backoff"
    /\ \E abort \in MayAbort :
          /\ Go(c, IF abort THEN "failed" ELSE "operation")
          /\ attempt' = IF abort THEN attempt ELSE [attempt EXCEPT ![c] = @ + 1]
    /\ UNCHANGED <<breakerVars, lastError, recovery>>

-----------------------------------------------------------------------------
(* The breaker is told, then the metrics, then HandleError runs.           *)
RecordSuccess(c) ==
    /\ phase[c] = "succeeded"
    /\ Breaker!RecordSuccess(c)
    /\ Go(c, "count success")
    /\ UNCHANGED <<attempt, lastError, recovery>>

CountSuccess(c) ==
    /\ phase[c] = "count success"
    /\ Count("successes") /\ Go(c, "result")
    /\ UNCHANGED <<breakerVars, attempt, lastError>>

RecordFailure(c) ==
    /\ phase[c] = "failed"
    /\ Breaker!RecordFailure(c)
    /\ Go(c, "count failure")
    /\ UNCHANGED <<attempt, lastError, recovery>>

CountFailure(c) ==
    /\ phase[c] = "count failure"
    /\ Count("failures") /\ Go(c, "handle")
    /\ UNCHANGED <<breakerVars, attempt, lastError>>

(* classifyError: the type that decides what recovery does.                *)
classifyError(e) ==
    CASE e \in {"connection refused", "permission denied"} -> "connection"
      [] e = "deadline exceeded" -> "context"
      [] e = "no space left" -> "resource"
      [] e \in {"network not found", "no route to host"} -> "network"
      [] OTHER -> "system"

(* The recovery of a lost connection pings the daemon, now and in two      *)
(* seconds; that of exhausted resources runs an aggressive cleanup; that   *)
(* of the network is a placeholder which never fails.                      *)
recoverDockerConnection == BOOLEAN
recoverFromResourceExhaustion == BOOLEAN
recoverNetworkConfiguration == {TRUE}

(* A classified error brings its own strategy, which only carries advice,  *)
(* so what is left of executeRecoveryStrategy is the switch on the code.   *)
executeRecoveryStrategy(e) ==
    CASE classifyError(e) = "connection" -> recoverDockerConnection
      [] classifyError(e) = "resource" -> recoverFromResourceExhaustion
      [] classifyError(e) = "network" -> recoverNetworkConfiguration
      [] OTHER -> {TRUE}

(* Seeded fault: a failed recovery is not counted.                         *)
FaultRecoveryUncounted(c) ==
    /\ phase[c] = "handle"
    /\ \E ok \in executeRecoveryStrategy(lastError[c]) :
          IF ok THEN Go(c, "recovered") /\ UNCHANGED recovery
          ELSE Go(c, "error") /\ UNCHANGED recovery
    /\ UNCHANGED <<breakerVars, attempt, lastError>>

(* HandleError; CleanupAfterError cannot change its outcome.               *)
HandleError(c) ==
    /\ phase[c] = "handle"
    /\ \E ok \in executeRecoveryStrategy(lastError[c]) :
          IF ok THEN Go(c, "recovered") /\ UNCHANGED recovery
          ELSE Go(c, "error") /\ Count("unrecovered")
    /\ UNCHANGED <<breakerVars, attempt, lastError>>

(* The caller gets the operation's error even so.                          *)
CountRecovery(c) ==
    /\ phase[c] = "recovered"
    /\ Count("recovered") /\ Go(c, "error")
    /\ UNCHANGED <<breakerVars, attempt, lastError>>

RecoveryStep(c) ==
    \/ EnterRecovery(c) \/ CanExecute(c) \/ Blocked(c)
    \/ OperationSucceeds(c) \/ Backoff(c)
    \/ \E e \in Errors : OperationFails(c, e)
    \/ RecordSuccess(c) \/ CountSuccess(c) \/ RecordFailure(c) \/ CountFailure(c)
    \/ HandleError(c) \/ CountRecovery(c)

TimePasses ==
    /\ Breaker!RecoveryTimeoutPasses \/ Breaker!ResetTimeoutPasses
    /\ UNCHANGED <<phase, attempt, lastError, recovery>>

-----------------------------------------------------------------------------
InPhase(ps) == Cardinality({c \in Callers : phase[c] \in ps})

(* Whatever the interleaving, every operation is accounted for by exactly  *)
(* one of the metrics or is still under way, every failure by exactly one  *)
(* recovery outcome, and the breaker has seen what the metrics count.      *)
RecoveryAccounted ==
    /\ recovery.operations = recovery.blocks + recovery.successes + recovery.failures
         + InPhase({"admit", "blocked", "operation", "backoff", "succeeded", "failed",
                    "count success", "count failure"})
    /\ recovery.failures = recovery.recovered + recovery.unrecovered
         + InPhase({"handle", "recovered"})
    /\ totalFailures = recovery.failures + InPhase({"count failure"})
    /\ totalSuccesses = recovery.successes + InPhase({"count success"})

(* The breaker hears of exactly the calls it admitted, once each: a caller *)
(* is admitted from CanExecute to its one RecordSuccess or RecordFailure,  *)
(* through all retries, and a blocked one never reports.                   *)
CallsPaired ==
    \A c \in Callers : guarded[c] = "running" <=>
        phase[c] \in {"operation", "backoff", "succeeded", "failed"}

(* "Failures before circuit opens": without a failure the breaker stays    *)
(* closed.                                                                 *)
OpensOnFailure == totalFailures = 0 => state = "CLOSED"
=============================================================================
