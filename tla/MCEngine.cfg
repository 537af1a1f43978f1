SPECIFICATION Spec
CONSTANTS
    Workers = {w1, w2}
    Submitters = {engine}
    k1 = k1
    k2 = k2
    Checks = {k1, k2}
    CheckList <- MCCheckList
    Daemon = k1
    None = None
    QueueCap = 1
    ResultCap = 2
    MinSamples = 1
CHECK_DEADLOCK FALSE
INVARIANTS
    NoPanic
    ReportFaithful
    SequenceReported
    CompleteLeavesNothing
PROPERTIES
    RunReturns
    WorkersExit
    AcceptedChecksCollected
