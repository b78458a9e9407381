\* Limit and market orders of two traders on a pair that charges buyers in assets,
\* where amounts need no rounding; one deal per placement, more by match.
SPECIFICATION Spec
CONSTANTS
    dex = dex
    alice = alice
    bob = bob
    AST = AST
    COIN = COIN
    OTH = OTH
    RATIO_PRECISION = 10
    FEE_RATIO_MAX = 4
    Int64Max = 1000000
    Accounts <- MCAccounts
    Self = dex
    Traders <- MCTraders
    Tokens <- TwoTokens
    Precision <- WholeUnits
    DEX_MATCH_COUNT_MAX = 50
    Uint64Max = 100
    InitialConfig <- OneDealPerOrder
    InitialSympairs <- AssetFeePair
    InitialAccounts <- Deposited8
    InitialBank <- Custody8
    Configs <- None
    PairInputs <- None
    TransferQuants <- None
    LimitQuants = {1, 2}
    Prices = {0, 1, 2}
    OrderKinds <- LimitAndMarket
    OrderConfigs <- DefaultRatios
    MatchCounts = {1, 3}
    MatchLists <- AllPairs
    CleanCounts <- None
    MaxSympairs = 1
    MaxOrders = 3
    MaxTime = 1
SYMMETRY TradersSymmetry
INVARIANTS
    TypeOK
    UncrossedWhenDone
    FrozenSuffices
    Solvent
    TotalsMatchDeals
PROPERTIES
    FairDeals
    PriceTimePriority
CHECK_DEADLOCK FALSE
