SPECIFICATION SpecAnnounced
SYMMETRY Symmetry
CHECK_DEADLOCK FALSE
CONSTANTS
    a1 = a1
    a2 = a2
    o1 = o1
    o2 = o2
    b1 = b1
    Accounts <- MCAccounts
    Burners <- MCBurners
    Oracles <- MCOracles
    FaultyOracles = {}
    Prices = {}
    Stakes <- MCStakes
    MaxBps = 4
    MaxBurnFeeBps = 2
    ConfigTimelock = 2
    MaxScanRounds = 4
    IntervalRange <- MCIntervals
    WindowRange <- MCWindows
    BufferRange <- MCBuffers
    Deployment <- MCDeployment
    Proposals <- MCProposals
    MaxEpoch = 1
    MaxBatch = 0
    MaxTime = 3
    MaxForced = 0
    FormStakes = {1, 2, 3}
INVARIANTS
    TypeOK
    EstimatesFollowTheLiveFee
PROPERTIES
    ChangesAreAnnounced
