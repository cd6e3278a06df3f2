SPECIFICATION Spec
CONSTANTS
    Callers = {}
    Stoppers = {s}
    Worker = Worker
    Retries = {r, q}
    Nodes <- ThreeNodes
    Discoverable = {}
    Dependable = {}
    Pools = {k1, k2, k3, k4}
    NoPool = NoPool
    RebalanceOnDisconnection = FALSE
INVARIANTS
    FlagAgreesAtRest
    TablesAligned
\* without RebalanceOnDisconnection a client whose table is filled comes to rest,
\* and everything stops after Shutdown
CHECK_DEADLOCK FALSE
