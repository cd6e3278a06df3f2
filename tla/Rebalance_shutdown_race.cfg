SPECIFICATION Spec
CONSTANTS
    Callers = {a}
    Stoppers = {s}
    Worker = Worker
    Retries = {}
    Nodes <- TwoNodes
    Discoverable = {}
    Dependable <- OnlyAlpha
    Pools = {k1, k2, k3}
    NoPool = NoPool
    RebalanceOnDisconnection = FALSE
INVARIANT ShutdownClosesAllPools
\* a panic ends the process, and without requests a client comes to rest
CHECK_DEADLOCK FALSE
