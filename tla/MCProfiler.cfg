SPECIFICATION Spec
CONSTANTS
    Categories = {"check", "job", "call"}
    CheckNames = {k1}
    NoCheck = nocheck
    Workers <- OneWorker
    MaxSize = 2
    MaxTimings = 4
    Collector = collector
    MaxStarts = 2
    MaxResets = 1
INVARIANTS CategoryIndexExact StoredCounted
PROPERTY LogImplemented
CHECK_DEADLOCK FALSE
