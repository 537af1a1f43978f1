SPECIFICATION Spec
CONSTANTS
    Callers = {c1, c2, c3}
    Configs <- MCConfigs
    RequestBound = 6
    AdminBound = 2
SYMMETRY Symmetry
INVARIANTS
    CountersNested
    ClosedBelowThreshold
    HistoryBalanced
    ProbeLimit
    StrandedOnlyByConfig
CHECK_DEADLOCK FALSE
