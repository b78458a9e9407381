\* Trades of RAM by two accounts while its supply grows, with limits the system manages.
SPECIFICATION Spec
CONSTANTS
    alice = alice
    bob = bob
    Accounts <- MCAccounts
    Funds <- RamFunds
    Stakes <- NetOnly
    RefundDelay = 0
    RamGift = 1
    Settings <- RamSetting
    RamPayments = {3}
    RamTrades = {2}
    FreeRam = 6
    RamQuote = 3
    RamSizes = {7}
    RamRates = {1}
    RamBound = 8
INVARIANTS
    
    RamBooks
    RamSellable
PROPERTIES
    NoGainOnMarket
