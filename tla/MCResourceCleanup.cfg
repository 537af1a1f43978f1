SPECIFICATION RunSpec
CONSTANTS
    a = a
    b = b
    c = c
    Callers = {c1, c2}
    Loop = loop
    IDs = {a, b, c}
    Resources = {a, b, c}
    IDOf <- MCIDOf
    DependsOn <- MCDependsOn
    Protected = {c}
    Diagnostic = {a}
    Temporary = {a}
    Old = {b}
    NoResource = none
    AutoCleanup = TRUE
    PreserveDebugData = FALSE
    MaxConcurrentCleanups = 1
    CleanupBatchSize = 2
    MaxHistory = 1
    MaxCleanups = 1
INVARIANTS SuccessIsComplete StopsOnce
PROPERTIES CleanupsReturn LoopStops
CHECK_DEADLOCK FALSE
