\* Two bidders outbid each other for two names; auctions close, also long after.
SPECIFICATION FairSpec
CONSTANTS
    eosio = eosio
    alice = alice
    bob = bob
    prefa = prefa
    prefb = prefb
    sub_prefa = sub_prefa
    Bidders <- MCBidders
    Self = eosio
    Premium <- MCPremium
    OtherNames = {sub_prefa}
    Suffix <- MCSuffix
    Funds <- MCFunds
    Bids <- MCBids
    UintRange = 16
    Day = 0
    ActivationDelay = 0
    ScheduleInterval = 0
INVARIANTS
    IInv
    Solvent
PROPERTIES
    HighestCloses
    ImplementsPromise
    EventuallyClosed
