SPECIFICATION FairSpec
CONSTANTS
    Clients = {c1, c2}
    Workers = {w1}
    CommandExecutionBufferSize = 1
    RebalanceOnDisconnection = TRUE
    StaticNodes = TRUE
    NoJob = NoJob
PROPERTY CallsReturn
\* a panic ends the process, and a pool that could not be created stays so
CHECK_DEADLOCK FALSE
