SPECIFICATION FairSpec
CONSTANTS
    Clients = {c1, c2}
    Listen = Listen
    bufsize = 2
    NTHREADS = 1
    Lengths = {3, 4}
INVARIANTS
    TypeOK
    RightIfWhole
    DownOnlyByReset
    UnreadIsNotWaitedFor
    LeavingIsNoticed
PROPERTIES
    EveryClientEnds
    ServerLetsGo
