SPECIFICATION FairSpec
CONSTANTS
    b1 = b1
    b2 = b2
    t1 = t1
    t2 = t2
    Nobody = Nobody
    HistoryLimit = 1
    Businesses <- OneBusiness
    TileOrder <- TwoTiles
    MaxMsgs = 2
    MaxCrashes = 1
CONSTRAINT Short
INVARIANTS OutboxInOrder TabComplete NobodyStranded
PROPERTIES DeliveredOnlyOnline ReachableGetsDelivered
