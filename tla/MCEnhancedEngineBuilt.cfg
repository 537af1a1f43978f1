SPECIFICATION Spec
CONSTANTS
    daemon = daemon
    dns = dns
    Callers = {daemon, dns}
    Configs <- BuiltConfigs
    RequestBound = 4
    Errors = {"connection refused", "permission denied", "no route to host"}
    MaxRetries = 1
    MayAbort = {FALSE}
    Daemon = daemon
    Filtered <- MCFiltered
    WorkerCounts = {0, 1, 2}
    MaxRuns = 2
INVARIANT OpensOnFailure
CHECK_DEADLOCK FALSE
