\* Two processes resolve one submission of unknown outcome.
SPECIFICATION Spec
CONSTANTS
    Tasks = {t1}
    Pollers = {p1, p2}
    Fetchers = {}
    Amounts = {2}
    Prices <- PerCall
    MaxPollFailures = 2
    MaxUserFetches = 0
    Paths = {"unconfirmed"}
    FaultPoints = {}
    Crashes = FALSE
INVARIANT SettledOnce
