SPECIFICATION FairSpec
CONSTANTS
    MaxBps = 4
    PonsShareBps = 3
    MinBuyback = 1
    Unlimited = 9
    Deposits <- MCDeposits
    Limits <- MCLimits
    Depth <- MCDepth
    Rooms <- MCRooms
    Horizon = 2
    MaxFunded = 6
    MaxTrouble = 2
INVARIANTS
    SharesFollowFunding
    SpendIsCapped
PROPERTIES
    AllThatFitsIsSpent
CHECK_DEADLOCK FALSE
