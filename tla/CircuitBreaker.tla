--------------------------- MODULE CircuitBreaker ---------------------------
(***************************************************************************)
(* The circuit breaker of internal/diagnostics/circuit_breaker.go and the  *)
(* calls it guards.  Every method runs under cb.mu, so each is one action; *)
(* what interleaves is the CanExecute of one caller with the RecordSuccess *)
(* or RecordFailure another caller issues for a call admitted earlier (the *)
(* pairing of ErrorRecovery.ExecuteWithRecovery).                          *)
(*                                                                         *)
(* Time is abstracted to the two comparisons the code makes with it:       *)
(*   recoveryDue  now - lastStateChange >= RecoveryTimeout                 *)
(*   resetDue     now - lastFailTime    >  ResetTimeout                    *)
(***************************************************************************)
EXTENDS Integers, FiniteSets

CONSTANTS
    Callers,        \* goroutines inside ExecuteWithRecovery
    Configs,        \* configurations NewCircuitBreaker/UpdateConfig may install
    RequestBound,   \* bound on totalRequests between two Resets
    AdminBound      \* bound on the number of operator calls

States == {"CLOSED", "OPEN", "HALF_OPEN"}

(* A configuration after defaulting, which leaves a FailureThreshold of 0  *)
(* alone; FailureRate is in percent, and a zero ResetTimeout switches the  *)
(* failure count reset off.                                                *)
ConfigType ==
    [FailureThreshold : Nat, FailureRate : Nat, MinRequestsThreshold : Nat,
     ConsecutiveSuccesses : Nat \ {0}, HalfOpenMaxRequests : Nat \ {0},
     ResetTimeout : Nat, AdaptiveThresholds : BOOLEAN,
     RequestVolumeThreshold : Nat]

ASSUME BreakerAssumption ==
    /\ IsFiniteSet(Callers)
    /\ Configs \subseteq ConfigType
    /\ RequestBound \in Nat
    /\ AdminBound \in Nat

VARIABLES
    state,
    config,
    failureCount,
    successCount,
    halfOpenRequestCount,
    consecutiveFailures,
    totalRequests,
    totalFailures,
    totalSuccesses,
    stateTransitions,
    recoveryDue,
    resetDue,
    pc,             \* pc[c] = "running" between CanExecute and its Record call
    adminOps        \* operator calls made so far

counts == <<failureCount, consecutiveFailures>>
probes == <<successCount, halfOpenRequestCount>>
totals == <<totalRequests, totalFailures, totalSuccesses>>
vars == <<state, config, counts, probes, totals, stateTransitions,
          recoveryDue, resetDue, pc, adminOps>>

Running == {c \in Callers : pc[c] = "running"}

-----------------------------------------------------------------------------
(* The failure rate and the adaptive ratio are floating point quotients in *)
(* the code; x/0 is +Inf and 0/0 is NaN, which fails every comparison.     *)
shouldOpenWithAdaptiveThreshold(cf) ==
    LET adjustedThreshold ==
            IF totalRequests > 2 * config.RequestVolumeThreshold
            THEN (config.FailureThreshold * 2) \div 3
            ELSE config.FailureThreshold
    IN  /\ totalRequests >= config.RequestVolumeThreshold
        /\ cf > 0
        /\ 10 * cf >= 8 * adjustedThreshold

(* Seeded fault: the threshold is compared with > instead of >=.           *)
FaultThresholdOffByOne(fc, cf, tf) ==
    \/ fc > config.FailureThreshold
    \/ config.AdaptiveThresholds /\ shouldOpenWithAdaptiveThreshold(cf)

shouldOpenCircuit(fc, cf, tf) ==
    \/ fc >= config.FailureThreshold
    \/ /\ config.FailureRate > 0
       /\ totalRequests >= config.MinRequestsThreshold
       /\ tf > 0
       /\ 100 * tf >= config.FailureRate * totalRequests
    \/ config.AdaptiveThresholds /\ shouldOpenWithAdaptiveThreshold(cf)

(* The three transitions: what entering state s writes besides the counters *)
(* of the failure window.                                                   *)
Enter(s) ==
    /\ state' = s
    /\ recoveryDue' = FALSE
    /\ stateTransitions' = [stateTransitions EXCEPT ![s] = @ + 1]

Stay == UNCHANGED <<state, recoveryDue, stateTransitions>>

transitionToOpen ==
    /\ IF state = "OPEN" THEN Stay ELSE Enter("OPEN")
    /\ UNCHANGED probes

(* Seeded fault: the probe count of the previous probing phase is kept.    *)
FaultKeepsProbeCount(admitted) ==
    /\ Enter("HALF_OPEN")
    /\ successCount' = 0
    /\ halfOpenRequestCount' = halfOpenRequestCount + admitted

transitionToHalfOpen(admitted) ==
    /\ Enter("HALF_OPEN")
    /\ successCount' = 0
    /\ halfOpenRequestCount' = admitted

transitionToClosed ==
    /\ Enter("CLOSED")
    /\ successCount' = 0
    /\ halfOpenRequestCount' = 0

(* Seeded fault: the streak survives the reset of the window.              *)
FaultKeepsStreak ==
    /\ failureCount' = 0
    /\ UNCHANGED consecutiveFailures

resetFailureCount ==
    /\ failureCount' = 0
    /\ consecutiveFailures' = 0

-----------------------------------------------------------------------------
(* NewCircuitBreaker: lastFailTime is the zero time, long past.            *)
Init ==
    /\ state = "CLOSED"
    /\ config \in Configs
    /\ failureCount = 0 /\ consecutiveFailures = 0
    /\ successCount = 0 /\ halfOpenRequestCount = 0
    /\ totalRequests = 0 /\ totalFailures = 0 /\ totalSuccesses = 0
    /\ stateTransitions = [s \in States |-> 0]
    /\ recoveryDue = FALSE
    /\ resetDue = TRUE
    /\ pc = [c \in Callers |-> "idle"]
    /\ adminOps = 0

Admit(c) == pc' = [pc EXCEPT ![c] = "running"]

CanExecuteClosed(c) ==
    /\ state = "CLOSED"
    /\ IF config.ResetTimeout > 0 /\ resetDue
       THEN resetFailureCount
       ELSE UNCHANGED counts
    /\ Admit(c)
    /\ Stay
    /\ UNCHANGED probes

CanExecuteOpen(c) ==
    /\ state = "OPEN"
    /\ IF recoveryDue
       THEN transitionToHalfOpen(1) /\ Admit(c)
       ELSE Stay /\ UNCHANGED <<probes, pc>>
    /\ UNCHANGED counts

(* Seeded fault: one probe too many.                                       *)
FaultExtraProbe(c) ==
    /\ state = "HALF_OPEN"
    /\ IF halfOpenRequestCount <= config.HalfOpenMaxRequests
       THEN halfOpenRequestCount' = halfOpenRequestCount + 1 /\ Admit(c)
       ELSE UNCHANGED <<halfOpenRequestCount, pc>>
    /\ Stay
    /\ UNCHANGED <<counts, successCount>>

CanExecuteHalfOpen(c) ==
    /\ state = "HALF_OPEN"
    /\ IF halfOpenRequestCount < config.HalfOpenMaxRequests
       THEN halfOpenRequestCount' = halfOpenRequestCount + 1 /\ Admit(c)
       ELSE UNCHANGED <<halfOpenRequestCount, pc>>
    /\ Stay
    /\ UNCHANGED <<counts, successCount>>

CanExecute(c) ==
    /\ pc[c] = "idle"
    /\ totalRequests < RequestBound
    /\ totalRequests' = totalRequests + 1
    /\ CanExecuteClosed(c) \/ CanExecuteOpen(c) \/ CanExecuteHalfOpen(c)
    /\ UNCHANGED <<config, totalFailures, totalSuccesses, resetDue, adminOps>>

RecordSuccessClosed ==
    /\ state = "CLOSED"
    /\ IF shouldOpenCircuit(failureCount, 0, totalFailures)
       THEN transitionToOpen
       ELSE Stay /\ UNCHANGED probes
    /\ consecutiveFailures' = 0
    /\ UNCHANGED failureCount

RecordSuccessHalfOpen ==
    /\ state = "HALF_OPEN"
    /\ IF successCount + 1 >= config.ConsecutiveSuccesses
       THEN transitionToClosed /\ resetFailureCount
       ELSE /\ successCount' = successCount + 1
            /\ consecutiveFailures' = 0
            /\ Stay
            /\ UNCHANGED <<halfOpenRequestCount, failureCount>>

RecordSuccessOpen ==
    /\ state = "OPEN"
    /\ transitionToHalfOpen(0)
    /\ consecutiveFailures' = 0
    /\ UNCHANGED failureCount

RecordSuccess(c) ==
    /\ pc[c] = "running"
    /\ pc' = [pc EXCEPT ![c] = "idle"]
    /\ totalSuccesses' = totalSuccesses + 1
    /\ RecordSuccessClosed \/ RecordSuccessHalfOpen \/ RecordSuccessOpen
    /\ UNCHANGED <<config, totalRequests, totalFailures, resetDue, adminOps>>

RecordFailure(c) ==
    /\ pc[c] = "running"
    /\ pc' = [pc EXCEPT ![c] = "idle"]
    /\ failureCount' = failureCount + 1
    /\ consecutiveFailures' = consecutiveFailures + 1
    /\ totalFailures' = totalFailures + 1
    /\ resetDue' = FALSE
    /\ IF \/ state = "HALF_OPEN"
          \/ /\ state = "CLOSED"
             /\ shouldOpenCircuit(failureCount + 1, consecutiveFailures + 1,
                                  totalFailures + 1)
       THEN transitionToOpen
       ELSE Stay /\ UNCHANGED probes
    /\ UNCHANGED <<config, totalRequests, totalSuccesses, adminOps>>

-----------------------------------------------------------------------------
(* Operator calls; each is counted so that behaviours stay finite.         *)
Admin == adminOps < AdminBound /\ adminOps' = adminOps + 1

Reset ==
    /\ Admin
    /\ state' = "CLOSED"
    /\ resetFailureCount
    /\ successCount' = 0 /\ halfOpenRequestCount' = 0
    /\ totalRequests' = 0 /\ totalFailures' = 0 /\ totalSuccesses' = 0
    /\ stateTransitions' = [s \in States |-> 0]
    /\ recoveryDue' = FALSE
    /\ resetDue' = TRUE
    /\ UNCHANGED <<config, pc>>

ForceOpen ==
    /\ Admin
    /\ transitionToOpen
    /\ UNCHANGED <<config, counts, totals, resetDue, pc>>

(* Seeded fault: the transition is taken from CLOSED as well.              *)
FaultCloseUnguarded ==
    /\ Admin
    /\ transitionToClosed /\ resetFailureCount
    /\ UNCHANGED <<config, totals, resetDue, pc>>

ForceClose ==
    /\ Admin
    /\ IF state = "CLOSED"
       THEN Stay /\ UNCHANGED <<counts, probes>>
       ELSE transitionToClosed /\ resetFailureCount
    /\ UNCHANGED <<config, totals, resetDue, pc>>

(* New timeouts may make either comparison true or false at once.          *)
UpdateConfig ==
    /\ Admin
    /\ config' \in Configs
    /\ recoveryDue' \in BOOLEAN
    /\ resetDue' \in BOOLEAN
    /\ UNCHANGED <<state, counts, probes, totals, stateTransitions, pc>>

(* Time passes.                                                            *)
RecoveryTimeoutPasses ==
    /\ ~recoveryDue
    /\ recoveryDue' = TRUE
    /\ UNCHANGED <<state, config, counts, probes, totals, stateTransitions,
                   resetDue, pc, adminOps>>

ResetTimeoutPasses ==
    /\ ~resetDue
    /\ resetDue' = TRUE
    /\ UNCHANGED <<state, config, counts, probes, totals, stateTransitions,
                   recoveryDue, pc, adminOps>>

Next ==
    \/ \E c \in Callers : CanExecute(c) \/ RecordSuccess(c) \/ RecordFailure(c)
    \/ Reset \/ ForceOpen \/ ForceClose \/ UpdateConfig
    \/ RecoveryTimeoutPasses \/ ResetTimeoutPasses

Spec == Init /\ [][Next]_vars

-----------------------------------------------------------------------------
(* Every variable holds a value of its Go type; counters are never         *)
(* negative and the state is one of the three named constants.             *)
TypeOK ==
    /\ state \in States
    /\ config \in Configs
    /\ failureCount \in Nat /\ consecutiveFailures \in Nat
    /\ successCount \in Nat /\ halfOpenRequestCount \in Nat
    /\ totalRequests \in Nat /\ totalFailures \in Nat /\ totalSuccesses \in Nat
    /\ stateTransitions \in [States -> Nat]
    /\ recoveryDue \in BOOLEAN /\ resetDue \in BOOLEAN
    /\ pc \in [Callers -> {"idle", "running"}]
    /\ adminOps \in Nat

(* The three failure counters RecordFailure advances together stay nested  *)
(* through every reset the other methods make of some of them: the failure *)
(* window never claims more failures than were recorded since Reset.       *)
CountersNested ==
    /\ consecutiveFailures <= failureCount
    /\ failureCount <= totalFailures

(* No burst of late failures leaves the circuit closed at or above every   *)
(* threshold that was ever configured: whatever the order of CanExecute,   *)
(* Record and operator calls, CLOSED means the failure window is empty or  *)
(* still below a configured FailureThreshold.                              *)
ClosedBelowThreshold ==
    state = "CLOSED" =>
        failureCount = 0 \/ \E c \in Configs : failureCount < c.FailureThreshold

(* The transition history GetStateHistory returns tells a possible story:  *)
(* each closing and each probing phase was preceded by an opening of its   *)
(* own, across forced transitions and late results.                        *)
HistoryBalanced ==
    /\ stateTransitions["OPEN"] >=
          stateTransitions["CLOSED"] + (IF state = "CLOSED" THEN 0 ELSE 1)
    /\ stateTransitions["OPEN"] >=
          stateTransitions["HALF_OPEN"] + (IF state = "OPEN" THEN 1 ELSE 0)

(* The probe budget is not exceeded: HALF_OPEN admits at most as many      *)
(* requests as some configured HalfOpenMaxRequests.                        *)
ProbeLimit ==
    state = "HALF_OPEN" =>
        \E c \in Configs : halfOpenRequestCount <= c.HalfOpenMaxRequests

(* "Half-open state for gradual recovery testing": the breaker is never    *)
(* stuck in HALF_OPEN with its probe budget spent and no admitted call     *)
(* left whose result could still open or close it.                         *)
NoDeadEnd ==
    ~ /\ state = "HALF_OPEN"
      /\ halfOpenRequestCount >= config.HalfOpenMaxRequests
      /\ Running = {}

(* Only a configuration that asks for more successes than it grants probes *)
(* strands the breaker, however late results and failed probing phases are *)
(* mixed: its own one, as long as no operator interferes, and after that   *)
(* any whose successes were still wanted when the last one was counted.    *)
StrandedOnlyByConfig ==
    ~NoDeadEnd =>
        /\ \E c \in Configs : c.ConsecutiveSuccesses > config.HalfOpenMaxRequests
        /\ adminOps = 0 => config.ConsecutiveSuccesses > config.HalfOpenMaxRequests

(* A stranded breaker stays stranded: no call and no passing of time leads *)
(* out of it, for CanExecute in HALF_OPEN looks at no clock.               *)
StrandedForGood ==
    [][~NoDeadEnd /\ adminOps' = adminOps => ~NoDeadEnd']_vars
=============================================================================
