SPECIFICATION Spec
CONSTANTS
    Clients = {c1, c2, c3}
    Workers = {w1, w2}
    CommandExecutionBufferSize = 1
    RebalanceOnDisconnection = TRUE
    StaticNodes = FALSE
    NoJob = NoJob
SYMMETRY PoolSymmetry
INVARIANTS
    TypeOK
    JobConservation
    ReportNeverBlocks
    FailureIsNoticed
    DownForAReason
PROPERTY ServesCallsOnce
\* a panic ends the process, and a pool that could not be created stays so
CHECK_DEADLOCK FALSE
