SPECIFICATION FairSpec
CONSTANTS
    Clients = {c1}
    Workers = {w1, w2}
    CommandExecutionBufferSize = 1
    RebalanceOnDisconnection = TRUE
    StaticNodes = TRUE
    NoJob = NoJob
PROPERTIES
    FailureIsRepaired
    LeftPoolGoesDown
    PoolWindsDown
    CallsAreAnswered
\* a panic ends the process, and a pool that could not be created stays so
CHECK_DEADLOCK FALSE
