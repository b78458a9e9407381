\* Stakes and refunds of two accounts, with a limit the system manages; no RAM is traded.
SPECIFICATION FairSpec
CONSTANTS
    alice = alice
    bob = bob
    Accounts <- MCAccounts
    Funds <- FewFunds
    Stakes <- MCStakes
    RefundDelay = 1
    RamGift = 1
    Settings <- NetSetting
    RamPayments = {}
    RamTrades = {}
    FreeRam = 6
    RamQuote = 3
    RamSizes = {}
    RamRates = {}
    RamBound = 0
INVARIANTS
    TypeOK
    StakeCovered
    TotalsAgree
    DeferredNotEarly
PROPERTIES
    ImplementsPromise
    EventuallyReturned
