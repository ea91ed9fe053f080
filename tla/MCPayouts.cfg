SPECIFICATION Spec
SYMMETRY Symmetry
CHECK_DEADLOCK FALSE
CONSTANTS
    a1 = a1
    a2 = a2
    a3 = a3
    o1 = o1
    b1 = b1
    b2 = b2
    Accounts <- MCAccounts
    Burners <- MCBurners
    Oracles <- MCOracles
    FaultyOracles = {}
    Prices <- MCPrices
    Stakes <- MCStakes
    MaxBps = 4
    MaxBurnFeeBps = 1
    ConfigTimelock = 2
    MaxScanRounds = 8
    IntervalRange <- MCIntervals
    WindowRange <- MCWindows
    BufferRange <- MCBuffers
    Deployment <- MCDeployment
    Proposals <- MCProposals
    MaxEpoch = 1
    MaxBatch = 2
    MaxTime = 3
    MaxForced = 1
    FormStakes = {}
INVARIANTS
    Solvent
    LiabilitiesCoverClaims
    PoolsMatchLedger
    OnlyDustStays
    LabelsMatchClaims
    CardsTellTheVerdict
PROPERTIES
    NoEntryOnceLockPriceIsKnown
    ImplementsEscrow
