-------------------------- MODULE MCCircuitBreaker --------------------------
(* Three configurations: one with as many probes as successes, one with a  *)
(* failure rate, adaptive thresholds and no window reset, and the one      *)
(* NewCircuitBreaker(nil) installs, its failure threshold lowered so that  *)
(* few requests open the circuit and its volume thresholds out of reach.   *)
EXTENDS CircuitBreaker, TLC

Plain ==
    [FailureThreshold |-> 2, FailureRate |-> 0, MinRequestsThreshold |-> 0,
     ConsecutiveSuccesses |-> 2, HalfOpenMaxRequests |-> 2, ResetTimeout |-> 1,
     AdaptiveThresholds |-> FALSE, RequestVolumeThreshold |-> 0]

Rated ==
    [FailureThreshold |-> 3, FailureRate |-> 50, MinRequestsThreshold |-> 4,
     ConsecutiveSuccesses |-> 1, HalfOpenMaxRequests |-> 3, ResetTimeout |-> 0,
     AdaptiveThresholds |-> TRUE, RequestVolumeThreshold |-> 2]

Default(threshold) ==
    [FailureThreshold |-> threshold, FailureRate |-> 0,
     MinRequestsThreshold |-> 10, ConsecutiveSuccesses |-> 3,
     HalfOpenMaxRequests |-> 2, ResetTimeout |-> 60,
     AdaptiveThresholds |-> FALSE, RequestVolumeThreshold |-> 20]

MCConfigs == {Plain, Rated, Default(2)}

(* What NewCircuitBreaker(nil) installs, unchanged.                        *)
DefaultConfigs == {Default(5)}

Symmetry == Permutations(Callers)
=============================================================================
