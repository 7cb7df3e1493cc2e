\* One polling process beside a user's queries; submissions of unknown outcome, rows from before the refund cut-off.
SPECIFICATION FairSpec
CONSTANTS
    Tasks = {t1}
    Pollers = {p1}
    Fetchers = {f1}
    Amounts = {1, 2}
    Prices <- SimplePrices
    MaxPollFailures = 2
    MaxUserFetches = 1
    Paths = {"unconfirmed", "legacy", "progress"}
    FaultPoints = {"cas", "save", "funding", "token"}
    Crashes = FALSE
INVARIANTS TokenFollowsFunding UnconfirmedHoldKept
PROPERTY UnfinishedHoldsResolve
