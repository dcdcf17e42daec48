SPECIFICATION FairSpec
CONSTANTS
    t0 = t0
    t1 = t1
    t2 = t2
    NoThread = NoThread
    Null = Null
    Threads = {t0, t1, t2}
    Share <- MCShare
INVARIANT
    NoNodeLost
