SPECIFICATION Spec
CONSTANTS
    Sessions = {s1, s2}
    s1 = s1
    s2 = s2
    Requests <- Trading
    MaxFrames = 2
    MaxBatch = 1
    MayLeave = TRUE
    Capacity = 4
    NoAsk = 99
    FeedOpen = TRUE
    FeedLossy = FALSE
INVARIANTS FeedInOrder
SYMMETRY SessionSymmetry
\* Clients may stop sending and every session may be closed.
CHECK_DEADLOCK FALSE
