SPECIFICATION FairSpec
CONSTANTS
    mod_small = 16
    mod_large = 32
    freq_hz = 6
    Thousand = 4
    Msecs = {4}
    Speeds = {1, 2}
    MaxLag = 1
PROPERTIES
    WaitEnds
