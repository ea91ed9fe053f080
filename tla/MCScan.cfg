SPECIFICATION Spec
CHECK_DEADLOCK FALSE
CONSTANTS
    o1 = o1
    b1 = b1
    Accounts = {}
    Burners <- MCBurners
    Oracles <- MCOracles
    FaultyOracles = {}
    Prices <- MCPrices
    Stakes <- MCStakes
    MaxBps = 4
    MaxBurnFeeBps = 1
    ConfigTimelock = 4
    MaxScanRounds = 5
    IntervalRange <- MCIntervals
    WindowRange <- MCWindows
    BufferRange <- MCBuffers
    Deployment <- MCDeployment
    Proposals <- MCProposals
    MaxEpoch = 5
    MaxBatch = 0
    MaxTime = 4
    MaxForced = 0
INVARIANTS
    WindowIsWide
