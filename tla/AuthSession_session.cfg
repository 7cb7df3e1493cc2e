\* Two tabs of one browser, two sessions, a reliable network: refreshes, a logout and a login meet.
SPECIFICATION UsedSpec
CONSTANTS
    a = a
    b = b
    Tabs = {a, b}
    Sids = {s1, s2}
    FirstSid = s1
    NoSid = NoSid
    Calls = 1
    Kinds <- TwoTabs
    Locks = TRUE
    MaxFaults = 0
    MaxChanges = 0
INVARIANTS TypeOK SignedOutStaysOut ReplayNeedsLoss
PROPERTIES EveryRefreshSettles TabsConverge
