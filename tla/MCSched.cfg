SPECIFICATION FairSpec
CONSTANTS
    TASK_NUM = 3
    Boot = Boot
    Wild = Wild
    Kernel = Kernel
    Garbage = Garbage
INVARIANTS
    TypeOK
    ContextKept
    WildOnlyIfTooEarly
PROPERTIES
    EveryTaskRuns
    ImplementsRoundRobin
