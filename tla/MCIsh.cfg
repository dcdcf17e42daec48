SPECIFICATION FairSpec
CONSTANTS
    Shell = Shell
    NoJob = NoJob
    Jobs = {j1, j2}
    MaxResumes = 3
INVARIANTS
    TypeOK
    AppendNotDisturbed
    ZombieOnlyIfMissed
    PromptOwnsTerminal
    JobsAreKept
    StuckOnlyIfMisentered
PROPERTIES
    PromptReturns
