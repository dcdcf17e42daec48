SPECIFICATION FairSpec
CONSTANTS
    p1 = p1
    p2 = p2
    c1 = c1
    c2 = c2
    p3 = p3
    c3 = c3
    NoThread = NoThread
    Producers = {p1, p2, p3}
    Consumers = {c1, c2, c3}
    Capacity = 3
    MaxSpurious = 1
    Rounds <- MCRounds
INVARIANTS
    TypeOK
    OneKindSleeps
    NoLostWakeup
    NeverStuck
PROPERTIES
    ImplementsFifo
    EveryCallReturns
