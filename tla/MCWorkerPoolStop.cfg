SPECIFICATION PoolSpec
CONSTANTS
    Workers = {w1, w2}
    Submitters = {s1, s2}
    Checks = {k1, k2, k3}
    None = None
    QueueCap = 1
    ResultCap = 1
    MinSamples = 2
SYMMETRY Symmetry
INVARIANT StopIsGraceful
CHECK_DEADLOCK FALSE
