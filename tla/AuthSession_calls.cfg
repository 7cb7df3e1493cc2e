\* Two calls of one tab at once, a lost message and a security change.
SPECIFICATION FairSpec
CONSTANTS
    a = a
    b = b
    Tabs = {a}
    Sids = {s1}
    FirstSid = s1
    NoSid = NoSid
    Calls = 2
    Kinds <- OneTab
    Locks = TRUE
    MaxFaults = 1
    MaxChanges = 1
INVARIANT ProofSpentOnce
PROPERTY EveryCallEnds
