SPECIFICATION DSpec
CONSTANTS
    Sessions = {s1, s2}
    s1 = s1
    s2 = s2
    Nobody = Nobody
    MaxOrders = 1
INVARIANTS StopJoinsAll Released TeardownOnce PollNeverOverReports
CHECK_DEADLOCK FALSE
PROPERTIES FeedOutlivesWorkers DriverStops
