SPECIFICATION FairSpec
CONSTANTS
    k1 = k1
    k2 = k2
    Keepers <- MCKeepers
    Nobody = Nobody
    Departed = Departed
    MaxEpoch = 2
    MaxBatch = 0
    MaxTrouble = 2
INVARIANTS
    LockExcludes
PROPERTIES
    RoundsAreFinished
CHECK_DEADLOCK FALSE
