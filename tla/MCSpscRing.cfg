SPECIFICATION Spec
CONSTANTS
    kCap <- MCkCap
    Word = 8
    Values = {a, b}
    NoValue = NoValue
INVARIANTS
    NoSlotRace
PROPERTIES
    ImplementsFifo
    EveryItemPopped
    ProducerAdvances
