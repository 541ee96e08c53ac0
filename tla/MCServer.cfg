SPECIFICATION Server
CONSTANTS
    b1 = b1
    b2 = b2
    t1 = t1
    Nobody = Nobody
    HistoryLimit = 2
    Businesses <- TwoBusinesses
    TileOrder <- OneTile
    MaxMsgs = 2
    MaxCrashes = 1
    MaxJobs = 3
    MaxParallel = 2
    MaxAttempts = 1
    MaxStoreErrors = 0
    MaxRestarts = 1
SYMMETRY BusinessSymmetry
INVARIANTS WebhooksMatchTransitions RepliesAnswerDelivered ComdoveFollows
PROPERTIES WipedStaysWiped ImplementsSystem
