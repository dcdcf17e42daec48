SPECIFICATION FairSpec
CONSTANTS
    mod_small = 16
    mod_large = 32
    freq_hz = 6
    Thousand = 4
    Msecs = {4, 6}
    Speeds = {1, 2, 4}
    MaxLag = 3
INVARIANTS
    TypeOK
    NeverEarly
    OnTime
    PeriodLongEnough
PROPERTIES
    CalibrationEnds
