SPECIFICATION Spec
CONSTANTS
    Categories = {"check", "job", "call"}
    CheckNames = {k1}
    NoCheck = nocheck
    Workers <- OneWorker
    MaxSize = 2
    MaxTimings = 4
    Collector = collector
    MaxStarts = 1
    MaxResets = 1
INVARIANT NeverCrashes
CHECK_DEADLOCK FALSE
