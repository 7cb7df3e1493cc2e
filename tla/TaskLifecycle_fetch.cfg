\* A user asks for the status of a running task.
SPECIFICATION Spec
CONSTANTS
    Tasks = {t1}
    Pollers = {p1}
    Fetchers = {f1}
    Amounts = {2}
    Prices <- PerCall
    MaxPollFailures = 2
    MaxUserFetches = 1
    Paths = {}
    FaultPoints = {}
    Crashes = FALSE
INVARIANT FailedIsRefunded
