\* A realtime session of one turn, paid from the wallet.
SPECIFICATION Spec
CONSTANTS
    Requests = {r1}
    Profiles <- RealtimeProfile
    Amounts = {1}
    InitWallets = {3}
    InitToken = 3
    SubTotal = 0
    TrustQuota = 0
    Fee = 0
    MaxTurns = 1
    MaxRefundAttempts = 3
    FaultPoints = {}
    Crashes = FALSE
INVARIANT RealtimeChargedOnce
