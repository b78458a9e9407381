\* Canceling a partly matched buy order that pays its fee in coins.
SPECIFICATION Spec
CONSTANTS
    dex = dex
    alice = alice
    bob = bob
    AST = AST
    COIN = COIN
    OTH = OTH
    RATIO_PRECISION = 10
    FEE_RATIO_MAX = 4
    Int64Max = 1000000
    Accounts <- MCAccounts
    Self = dex
    Traders <- MCTraders
    Tokens <- TwoTokens
    Precision <- WholeUnits
    DEX_MATCH_COUNT_MAX = 50
    Uint64Max = 100
    InitialConfig <- OneDealPerOrder
    InitialSympairs <- CoinFeePair
    InitialAccounts <- Deposited8
    InitialBank <- Custody8
    Configs <- None
    PairInputs <- None
    TransferQuants <- None
    LimitQuants = {1, 2}
    Prices = {2}
    OrderKinds <- LimitOnly
    OrderConfigs <- DefaultRatios
    MatchCounts = {1, 3}
    MatchLists <- AllPairs
    CleanCounts <- None
    MaxSympairs = 1
    MaxOrders = 3
    MaxTime = 1
SYMMETRY TradersSymmetry
INVARIANTS
    Solvent
CHECK_DEADLOCK FALSE
