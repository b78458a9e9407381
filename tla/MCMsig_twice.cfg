\* A proposer asks the same level twice.
SPECIFICATION Spec
CONSTANTS
    alice = alice
    bob = bob
    first = first
    second = second
    Accounts <- MCAccounts
    Keys <- MCKeys
    Proposer <- MCProposer
    Levels <- MCLevels
    Actor <- MCActor
    Transactions <- MCTransactions
    Expiration <- MCExpiration
    Sufficient <- MCSufficient
    Requests <- ALevelTwice
    OldProposals <- NoOldProposals
    SlotsPerSecond = 2
    MaxTime = 3
PROPERTIES
    UnapproveRevokes
CHECK_DEADLOCK FALSE
