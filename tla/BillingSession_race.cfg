\* Two requests of one user compete for the wallet, the token and the subscription.
SPECIFICATION Spec
CONSTANTS
    Requests = {r1, r2}
    Profiles <- CompetingProfiles
    Amounts = {0, 2}
    InitWallets = {2}
    InitToken = 4
    SubTotal = 3
    TrustQuota = 0
    Fee = 1
    MaxTurns = 1
    MaxRefundAttempts = 1
    FaultPoints = {}
    Crashes = FALSE
INVARIANTS ExactCharge OverdraftOnlyBeyondHold
