SPECIFICATION Spec
CONSTANTS
    Callers = {a, b}
    Requests <- SharedPathCalls
    Lists <- NodeLists
    Blank = 0
    MaxKeyLength = 2
    Shared <- Path
    CompressionType = "none"
    Legacy = {}
    Empty = Empty
    Nothing = Nothing
    Absent = Absent
    MaxCalls = 2
    MaxPublished = 0
INVARIANT KeysAreLegal
\* calls and tables are bounded
CHECK_DEADLOCK FALSE
