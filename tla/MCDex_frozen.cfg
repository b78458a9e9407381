\* The rounded costs of the deals of a buy order against the coins it froze.
SPECIFICATION Spec
CONSTANTS
    dex = dex
    alice = alice
    bob = bob
    AST = AST
    COIN = COIN
    OTH = OTH
    RATIO_PRECISION = 10
    FEE_RATIO_MAX = 4
    Int64Max = 1000000
    Accounts <- MCAccounts
    Self = dex
    Traders <- MCTraders
    Tokens <- TwoTokens
    Precision <- OneDecimal
    DEX_MATCH_COUNT_MAX = 50
    Uint64Max = 100
    InitialConfig <- ManyDealsPerOrder
    InitialSympairs <- CoinFeePair
    InitialAccounts <- Deposited8
    InitialBank <- Custody8
    Configs <- None
    PairInputs <- None
    TransferQuants <- None
    LimitQuants = {1, 2}
    Prices = {0, 15, 25}
    OrderKinds <- LimitAndMarket
    OrderConfigs <- DefaultRatios
    MatchCounts = {1}
    MatchLists <- AllPairs
    CleanCounts <- None
    MaxSympairs = 1
    MaxOrders = 3
    MaxTime = 1
SYMMETRY TradersSymmetry
INVARIANTS
    FrozenSuffices
CHECK_DEADLOCK FALSE
