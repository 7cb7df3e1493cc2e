\* Three calls of any kind in every mode; Redis, the database and the process may fail, the copy may expire.
SPECIFICATION FairSpec
CONSTANTS
    Calls = {c1, c2, c3}
    Kinds = {"reserve", "increase", "decrease", "read"}
    Amounts = {2}
    InitQuota = 3
    MaxWalletQuota = 4
    Modes <- EveryMode
    FaultPoints = {"redis", "db", "fence"}
    Crashes = TRUE
INVARIANTS TypeOK CacheFollowsTable ReservationsCovered
PROPERTY EveryDeltaWritten
