SPECIFICATION Spec
CONSTANTS
    Callers = {a}
    Stoppers = {s}
    Worker = Worker
    Retries = {}
    Nodes <- TwoNodes
    Discoverable <- OneNodeLists
    Dependable <- OnlyAlpha
    Pools = {k1, k2}
    NoPool = NoPool
    RebalanceOnDisconnection = TRUE
INVARIANT TablesAligned
\* pools nobody terminates use up the names, and a shut down client stops
CHECK_DEADLOCK FALSE
