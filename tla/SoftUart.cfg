SPECIFICATION FairSpec

CONSTANTS
    Bytes = {0, 10, 173}
    Period = 6
    MaxPrints = 3

INVARIANTS
    HeardAsSpoken
    EnablesKept

PROPERTIES
    PutcharReturns
