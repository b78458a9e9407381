\* A pair that charges both sides in coins, amounts and fees that need rounding:
\* deals fail on the frozen quantity and are rolled back.
SPECIFICATION Spec
CONSTANTS
    dex = dex
    alice = alice
    bob = bob
    AST = AST
    COIN = COIN
    OTH = OTH
    RATIO_PRECISION = 10
    FEE_RATIO_MAX = 4
    Int64Max = 1000000
    Accounts <- MCAccounts
    Self = dex
    Traders <- OneTrader
    Tokens <- TwoTokens
    Precision <- OneDecimal
    DEX_MATCH_COUNT_MAX = 50
    Uint64Max = 100
    InitialConfig <- ManyDealsPerOrder
    InitialSympairs <- CoinFeePair
    InitialAccounts <- Deposited8
    InitialBank <- Custody8
    Configs <- None
    PairInputs <- None
    TransferQuants <- None
    LimitQuants = {1, 2}
    Prices = {0, 15, 25}
    OrderKinds <- LimitAndMarket
    OrderConfigs <- ChosenRatios
    MatchCounts = {1}
    MatchLists <- AllPairs
    CleanCounts <- None
    MaxSympairs = 1
    MaxOrders = 3
    MaxTime = 1
INVARIANTS
    EngineChecksHold
    LedgerExact
CHECK_DEADLOCK FALSE
