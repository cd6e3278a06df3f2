SPECIFICATION Spec
CONSTANTS
    Clients = {c1}
    Workers = {w1}
    CommandExecutionBufferSize = 1
    RebalanceOnDisconnection = FALSE
    StaticNodes = TRUE
    NoJob = NoJob
INVARIANT NoPanicInCalls
\* a panic ends the process, and a pool that could not be created stays so
CHECK_DEADLOCK FALSE
