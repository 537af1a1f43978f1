----------------------- MODULE MCGracefulDegradation -----------------------
(* A critical and two ordinary indicators go to, above and far above their *)
(* thresholds: all four levels are asked for.                              *)
EXTENDS GracefulDegradation
MCValues == [i \in Indicators |->
    CASE i = "docker_connectivity" -> {0, 1, 3}
      [] i = "response_time" -> {0, 2, 3}
      [] i = "resource_usage" -> {0, 3}
      [] OTHER -> {0}]
=============================================================================
