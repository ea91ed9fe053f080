SPECIFICATION Spec
CONSTANTS
    None = None
    alice = alice
    bob = bob
    Market = Market
    OtherMarket = OtherMarket
    Contents <- MCContents
    Histories <- MCHistories
    OtherTables <- MCOtherTables
    Lengths = {1, 3, 6, 8}
    Accounts <- MCAccounts
    Epochs = {1, 2, 3}
    StartBlock = 1
    Confirmations = 1
    BatchSize = 3
    MaxLag = 10
    MaxTrouble = 3
INVARIANTS
    RollbackIsClean
CHECK_DEADLOCK FALSE
