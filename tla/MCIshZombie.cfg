SPECIFICATION Spec
CONSTANTS
    Shell = Shell
    NoJob = NoJob
    Jobs = {j1, j2}
    MaxResumes = 3
INVARIANT
    NoZombieAtPrompt
