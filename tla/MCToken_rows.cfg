\* Two tokens, two users: rows opened, made by transfers, emptied and closed.
SPECIFICATION Spec
CONSTANTS
    token = token
    alice = alice
    bob = bob
    nobody = nobody
    Names <- MCNames
    Accounts <- MCAccounts
    Self = token
    Codes = {"TKN"}
    Precisions = {0, 4}
    MaxAmount = 3
    Amounts = {0, 1, 2, 3, 4}
INVARIANTS
    IInv
    SupplyIsHeld
    PrecisionAgrees
PROPERTIES
    PayersSigned
    ImplementsPromise
