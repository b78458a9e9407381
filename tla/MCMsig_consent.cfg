\* Two proposals, one of them of the earlier version, to their execution or expiration.
SPECIFICATION Spec
CONSTANTS
    alice = alice
    bob = bob
    first = first
    second = second
    Accounts <- MCAccounts
    Keys <- MCKeys
    Proposer <- MCProposer
    Levels <- MCLevels
    Actor <- MCActor
    Transactions <- MCTransactions
    Expiration <- MCExpiration
    Sufficient <- MCSufficient
    Requests <- EachLevelOnce
    OldProposals <- AnOldProposal
    SlotsPerSecond = 2
    MaxTime = 2
INVARIANTS
    TablesAgree
    IInv
PROPERTIES
    ImplementsConsent
    UnapproveRevokes
CHECK_DEADLOCK FALSE
