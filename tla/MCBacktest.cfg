SPECIFICATION Spec
CONSTANTS
    Ticks <- MCTicks
    Capacity = 5
    NoAsk = 14
    QuoteQty = 2
    Spread = 1
    RequoteThreshold = 1
    RequoteInterval = 3
    InventoryLimit = 1
    FastWindow = 1
    SlowWindow = 2
    TargetPosition = 2
    Slippage = 1
INVARIANTS TypeOK PnlAddsUp FillsCredited NoStrayQuote PositionsBounded
PROPERTIES  TakesLiquidity
CHECK_DEADLOCK FALSE
