SPECIFICATION Spec
CONSTANTS
    Users = {u1}
    Monitor = mon
    None = none
    Values <- MCValues
    EnableAutoDetection = TRUE
    ManualOverrideAllowed = FALSE
    EnableAutoRecovery = FALSE
    DefaultLevel = 0
    MaxHistory = 2
PROPERTY ImprovesOnlyIfAllowed
CHECK_DEADLOCK FALSE
