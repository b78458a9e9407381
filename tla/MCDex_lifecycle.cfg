\* From an empty exchange: funds, pairs, configurations, orders, and recycling of old data.
SPECIFICATION Spec
CONSTANTS
    dex = dex
    alice = alice
    bob = bob
    AST = AST
    COIN = COIN
    OTH = OTH
    RATIO_PRECISION = 10
    FEE_RATIO_MAX = 4
    Int64Max = 1000000
    Accounts <- MCAccounts
    Self = dex
    Traders <- OneTrader
    Tokens <- TwoTokens
    Precision <- WholeUnits
    DEX_MATCH_COUNT_MAX = 50
    Uint64Max = 100
    InitialConfig <- SignedOnly
    InitialSympairs <- NoPairs
    InitialAccounts <- NoBalances
    InitialBank <- Wallets
    Configs <- SomeConfigs
    PairInputs <- OneDirection
    TransferQuants = {3}
    LimitQuants = {1, 2}
    Prices = {1}
    OrderKinds <- LimitOnly
    OrderConfigs <- DefaultRatios
    MatchCounts = {1}
    MatchLists <- AllPairs
    CleanCounts = {3}
    MaxSympairs = 1
    MaxOrders = 3
    MaxTime = 3
INVARIANTS
    
    CompletedHaveDeal
    DealsHaveOrders
CHECK_DEADLOCK FALSE
