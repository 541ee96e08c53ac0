SPECIFICATION Spec
CONSTANTS
    b1 = b1
    b2 = b2
    t1 = t1
    t2 = t2
    Nobody = Nobody
    HistoryLimit = 2
    Businesses <- OneBusiness
    TileOrder <- OneTile
    MaxMsgs = 2
    MaxCrashes = 0

INVARIANTS NoBubbleTwice
