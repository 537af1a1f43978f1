SPECIFICATION Spec
CONSTANTS
    Users = {u1, u2}
    Monitor = mon
    None = none
    Values <- MCValues
    EnableAutoDetection = TRUE
    ManualOverrideAllowed = FALSE
    EnableAutoRecovery = TRUE
    DefaultLevel = 0
    MaxHistory = 2
INVARIANT NoSelfDeadlock
CHECK_DEADLOCK FALSE
