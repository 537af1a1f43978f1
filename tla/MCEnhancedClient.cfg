SPECIFICATION Spec
CONSTANTS
    Callers = {c1, c2}
    Keys = {"list", "inspect", "network", "config"}
    NoEntry = NoEntry
    MaxEntries = 1
    Calls = {"list", "inspect", "network", "config", "exec", "ping"}
    MaxConnections = 1
    MaxRetries = 1
    MaxNetworks = 1
INVARIANTS
    TypeOK
    CacheBound
    SlotsConserved
PROPERTIES
    ClosedClientQuiet
    CallsReturn
