SPECIFICATION Spec
CONSTANTS
    Sessions = {s1}
    s1 = s1
    Requests <- Everything
    MaxFrames = 3
    MaxBatch = 2
    MayLeave = TRUE
    Capacity = 4
    NoAsk = 99
    FeedOpen = TRUE
    FeedLossy = TRUE
INVARIANTS OnlyAfterLogon OutSeqGapless  
PROPERTIES LogoutCloses 
\* Clients may stop sending and every session may be closed.
CHECK_DEADLOCK FALSE
