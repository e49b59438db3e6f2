SPECIFICATION Spec
CONSTANTS
    Config = "auto"
    Users = {u}
    Ports = {p}
    Theta <- MCTheta
    Real <- MCReal
    AlphaDiv = 2
    HasPhc = TRUE
    MaxNow = 2
    MaxNet = 1
INVARIANTS SampleSane OffsetAccurate
PROPERTY SyncThreadStops
CHECK_DEADLOCK FALSE
