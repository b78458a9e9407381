\* Matches over three pairs, one of them disabled, under one budget.
SPECIFICATION FairSpec
CONSTANTS
    dex = dex
    alice = alice
    bob = bob
    AST = AST
    COIN = COIN
    OTH = OTH
    RATIO_PRECISION = 10
    FEE_RATIO_MAX = 4
    Int64Max = 1000000
    Accounts <- MCAccounts
    Self = dex
    Traders <- OneTrader
    Tokens <- ThreeTokens
    Precision <- WholeUnits
    DEX_MATCH_COUNT_MAX = 1
    Uint64Max = 100
    InitialConfig <- NoDealPerOrder
    InitialSympairs <- ThreePairs
    InitialAccounts <- Deposited8
    InitialBank <- Custody8
    Configs <- None
    PairInputs <- None
    TransferQuants <- None
    LimitQuants = {1}
    Prices = {1}
    OrderKinds <- LimitOnly
    OrderConfigs <- DefaultRatios
    MatchCounts = {1, 2}
    MatchLists <- PairLists
    CleanCounts <- None
    MaxSympairs = 1
    MaxOrders = 4
    MaxTime = 1
INVARIANTS
    MatchBudget
    IInv
PROPERTIES
    EventuallyUncrossed
CHECK_DEADLOCK FALSE
