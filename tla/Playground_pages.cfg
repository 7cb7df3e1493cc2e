\* Two of three conversations are kept; two requests of two deltas and a stop.
SPECIFICATION Spec
CONSTANTS
    Ids = {c1, c2, c3}
    MaxConversations = 2
    Letters <- TwoDeltas
    MaxGen = 3
    Hasty = FALSE
    Room = 3
SYMMETRY Symmetry
INVARIANTS TypeOK OnlyOwnText CompleteAnswer HistoriesSeparate NoOrphanPending
           OnlyUnsavedIsLost BusyHasCause
