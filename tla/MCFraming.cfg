SPECIFICATION Spec
CONSTANTS
    Scripts <- MCScripts
    Damage <- MCDamage
    Chunks = {1, 2, 7}
    BeginString <- MCBegin
    LenDigits = 2
    MaxBody = 60
    MaxTag = 100
INVARIANTS TypeOK  ChunksIrrelevant
CHECK_DEADLOCK FALSE
