SPECIFICATION RSpec
CONSTANTS
    NULL = NULL
    Capacity = 3
    Prices = {1, 2}
    Quantities = {0, 1, 3}
    MaxOrders = 4
INVARIANTS
    BookLinked
    PoolExact
    Uncrossed
PROPERTIES
    PriceTimePriority
    PlaceLimitReturns
    ImplementsMatching
