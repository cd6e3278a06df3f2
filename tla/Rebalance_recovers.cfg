SPECIFICATION ReachableSpec
CONSTANTS
    Callers = {}
    Stoppers = {}
    Worker = Worker
    Retries = {r, q}
    Nodes <- OneNode
    Discoverable = {}
    Dependable = {}
    Pools = {k1, k2, k3}
    NoPool = NoPool
    RebalanceOnDisconnection = FALSE
PROPERTY EmptyTableRecovers
\* a panic ends the process, and without requests a client comes to rest
CHECK_DEADLOCK FALSE
