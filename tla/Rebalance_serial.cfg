SPECIFICATION FairSpec
CONSTANTS
    Callers = {}
    Stoppers = {}
    Worker = Worker
    Retries = {}
    Nodes <- TwoNodes
    Discoverable = {}
    Dependable <- OnlyAlpha
    Pools = {k1, k2, k3, k4}
    NoPool = NoPool
    RebalanceOnDisconnection = TRUE
INVARIANTS
    TypeOK
    NoDoubleTermination
    TableIsExactAtRest
PROPERTIES
    HealthyPoolsKept
    RequestIsServed
