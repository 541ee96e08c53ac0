SPECIFICATION Spec
CONSTANTS
    c1 = c1
    c2 = c2
    c3 = c3
    NoConv = NoConv
    Convs <- TwoConvs
    MaxParallel = 1
    MaxAttempts = 2
    MaxJobs = 3
    MaxCrashes = 1
    MaxStoreErrors = 1
SYMMETRY ConvSymmetry
INVARIANTS TypeOK NobodyLost SlotsFullWhenWaiting QueuesMirrorStore NoOvertaking VerdictsEarned
PROPERTIES FirstReceiptInOrder ImplementsStream
