------------------------- MODULE MCEnhancedEngine -------------------------
(* Two checks, the daemon check first; degradation may leave it alone.     *)
EXTENDS EnhancedEngine
CONSTANTS daemon, dns
MCFiltered == {<<daemon, dns>>, <<daemon>>}

(* The breaker with a threshold of its own, and the one NewEnhancedEngine  *)
(* builds: no FailureThreshold given, the rest defaulted.                  *)
Configured ==
    [FailureThreshold |-> 2, FailureRate |-> 0, MinRequestsThreshold |-> 10,
     ConsecutiveSuccesses |-> 3, HalfOpenMaxRequests |-> 2, ResetTimeout |-> 60,
     AdaptiveThresholds |-> FALSE, RequestVolumeThreshold |-> 20]
AsBuilt == [Configured EXCEPT !.FailureThreshold = 0, !.MinRequestsThreshold = 0,
                              !.RequestVolumeThreshold = 0]
MCConfigs == {Configured, AsBuilt}
BuiltConfigs == {AsBuilt}
=============================================================================
