SPECIFICATION Spec
CONSTANTS
    Sessions = {s1}
    s1 = s1
    Requests <- Trading
    MaxFrames = 3
    MaxBatch = 1
    MayLeave = TRUE
    Capacity = 4
    NoAsk = 99
    FeedOpen = TRUE
    FeedLossy = FALSE
INVARIANTS FeedCurrent
\* Clients may stop sending and every session may be closed.
CHECK_DEADLOCK FALSE
