SPECIFICATION Spec
CHECK_DEADLOCK FALSE
CONSTANTS
    o1 = o1
    o2 = o2
    b1 = b1
    Accounts = {}
    Burners <- MCBurners
    Oracles <- MCOracles
    FaultyOracles = {o2}
    Prices <- MCPrices
    Stakes <- MCStakes
    MaxBps = 4
    MaxBurnFeeBps = 1
    ConfigTimelock = 1
    MaxScanRounds = 8
    IntervalRange <- MCIntervals
    WindowRange <- MCWindows
    BufferRange <- MCBuffers
    Deployment <- MCDeployment
    Proposals <- MCProposals
    MaxEpoch = 3
    MaxBatch = 0
    MaxTime = 3
    MaxForced = 0
INVARIANTS
    BoundariesMeet
    SharedBoundaryAgrees
PROPERTIES
    HistoryIsFinal
    ExecuteCatchesUp
    NoVoidOfPriceableRound
