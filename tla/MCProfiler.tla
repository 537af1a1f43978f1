----------------------------- MODULE MCProfiler -----------------------------
(* A worker around a buffer of two measurements.                           *)
EXTENDS Profiler
OneWorker == {1}
=============================================================================
