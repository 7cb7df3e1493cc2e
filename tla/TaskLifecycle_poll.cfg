\* Two polling processes, failing writes and billing calls, crashes; rows end by poll, sweep, bulk update or at once.
SPECIFICATION FairSpec
CONSTANTS
    Tasks = {t1}
    Pollers = {p1, p2}
    Fetchers = {}
    Amounts = {1, 2}
    Prices <- MixedPrices
    MaxPollFailures = 2
    MaxUserFetches = 0
    Paths = {"bulk", "immediate", "progress"}
    FaultPoints = {"cas", "funding", "quota"}
    Crashes = TRUE
INVARIANTS TypeOK SettledOnce PaidMatchesRow PolledFailureRefunded
PROPERTIES TerminalIsFinal UnfinishedTasksEnd
