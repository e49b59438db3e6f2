SPECIFICATION Spec
CONSTANTS
    Sessions = {s1, s2}
    s1 = s1
    s2 = s2
    Requests <- Trading
    MaxFrames = 3
    MaxBatch = 1
    MayLeave = FALSE
    Capacity = 4
    NoAsk = 99
    FeedOpen = TRUE
    FeedLossy = FALSE
INVARIANTS TypeOK ExecIdsUnique  ReportsAddUp TopsAreReal
SYMMETRY SessionSymmetry
\* Clients may stop sending and every session may be closed.
CHECK_DEADLOCK FALSE
