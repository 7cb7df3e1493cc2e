\* One request of every profile, every database fault but a lost record save, crashes.
SPECIFICATION FairSpec
CONSTANTS
    Requests = {r1}
    Profiles <- EveryProfile
    Amounts = {0, 1, 2}
    InitWallets = {1, 3}
    InitToken = 3
    SubTotal = 2
    TrustQuota = 2
    Fee = 1
    MaxTurns = 2
    MaxRefundAttempts = 3
    FaultPoints = {"wallet", "token", "sub", "query"}
    Crashes = TRUE
INVARIANTS TypeOK NoQuotaCreated ExactCharge OneFundingSource
PROPERTIES ClosedStaysClosed EveryRequestCloses ImplementsChargeOnce
