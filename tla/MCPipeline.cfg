SPECIFICATION FairSpec
CONSTANTS
    N = 4
    Capacity = 2
    Items = 3
INVARIANTS
    TypeOK
    OutputRight
    JamsOnlyIfUnread
PROPERTIES
    LineEnds
    LeftoversEnd
\* A line that jams stops.
CHECK_DEADLOCK FALSE
