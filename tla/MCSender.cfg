SPECIFICATION FairSpec
CONSTANTS
    lock = lock
    buy = buy
    Unknown = Unknown
    Actions <- MCActions
    Benign <- MCBenign
    MaxAttempts = 3
    MaxTrouble = 2
    MaxArrivals = 2
INVARIANTS
    NeverSkipsANonce
PROPERTIES
    DueWorkIsDone
CHECK_DEADLOCK FALSE
