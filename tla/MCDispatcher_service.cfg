SPECIFICATION FairSpec
CONSTANTS
    c1 = c1
    c2 = c2
    c3 = c3
    NoConv = NoConv
    Convs <- TwoConvs
    MaxParallel = 1
    MaxAttempts = 2
    MaxJobs = 2
    MaxCrashes = 1
    MaxStoreErrors = 1
PROPERTIES EveryJobSettles IdleResolves
