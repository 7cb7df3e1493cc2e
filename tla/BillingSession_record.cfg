\* A subscription request whose refund loses the save of its record.
SPECIFICATION Spec
CONSTANTS
    Requests = {r1, r2}
    Profiles <- SubscriptionProfile
    Amounts = {1}
    InitWallets = {0}
    InitToken = 3
    SubTotal = 3
    TrustQuota = 0
    Fee = 0
    MaxTurns = 0
    MaxRefundAttempts = 3
    FaultPoints = {"record"}
    Crashes = FALSE
INVARIANT RefundIdempotent
