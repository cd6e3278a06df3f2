SPECIFICATION FairCommandsSpec
CONSTANTS
    Addresses = {here}
    NoAddress = NoAddress
    Commands <- Jobs
    Tokens <- AllTokens
    Answers <- AllAnswers
    ResponseSet <- AllResponseSets
    ReadBufferSize = 8
    MaxRequests = 3
    Values <- SafeValues
    NotStoredWords <- Whole
    NoReply = NoReply
INVARIANTS
    TypeOK
    ReplyIsTheAnswer
    NothingLeftUnread
    ReadsAreConnected
PROPERTIES
    KeepsItsPromise
    CommandsReturn
\* the last request may be the last thing that happens
CHECK_DEADLOCK FALSE
