SPECIFICATION Spec
CONSTANTS
    Users = {u1}
    Monitor = mon
    None = none
    Values <- MCValues
    EnableAutoDetection = TRUE
    ManualOverrideAllowed = TRUE
    EnableAutoRecovery = TRUE
    DefaultLevel = 0
    MaxHistory = 2
INVARIANTS HistoryChains FilterNarrows
PROPERTIES LockServed LevelFollowsHealth
CHECK_DEADLOCK FALSE
