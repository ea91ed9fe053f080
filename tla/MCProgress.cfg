SPECIFICATION FairSpec
CHECK_DEADLOCK FALSE
CONSTANTS
    a1 = a1
    a2 = a2
    o1 = o1
    b1 = b1
    Accounts <- MCAccounts
    Burners <- MCBurners
    Oracles <- MCOracles
    FaultyOracles = {}
    Prices <- MCPrices
    Stakes <- MCStakes
    MaxBps = 4
    MaxBurnFeeBps = 1
    ConfigTimelock = 2
    MaxScanRounds = 8
    IntervalRange <- MCIntervals
    WindowRange <- MCWindows
    BufferRange <- MCBuffers
    Deployment <- MCDeployment
    Proposals <- MCProposals
    MaxEpoch = 2
    MaxBatch = 2
    MaxTime = 4
    MaxForced = 0
    FormStakes = {1, 2, 3}
    Wallets = {2, 6}
    GasReserve = 1
    RowLimit = 2
    LegacyLimit = 1
INVARIANTS
    OffersAreAccepted
PROPERTIES
    EveryRoundIsDecided
