SPECIFICATION Spec
CONSTANTS
    Callers = {a, b}
    Requests <- Calls
    Lists <- NodeLists
    Blank = 0
    MaxKeyLength = 2
    Shared <- Path
    CompressionType = "zstandard"
    Legacy <- OldData
    Empty = Empty
    Nothing = Nothing
    Absent = Absent
    MaxCalls = 2
    MaxPublished = 1
SYMMETRY Symmetry
INVARIANTS
    TypeOK
    KeysAreLegal
    RoutingIsStable
    ClusterAnswersForEachNode
    DataIsTrue
    OnlyClusterCallsPanic
\* calls and tables are bounded, and a panic ends the process
CHECK_DEADLOCK FALSE
