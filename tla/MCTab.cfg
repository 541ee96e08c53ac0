SPECIFICATION Spec
CONSTANTS
    b1 = b1
    b2 = b2
    Nobody = Nobody
    Businesses <- TwoBusinesses
    HistoryLimit = 1
    MaxMsgs = 2
SYMMETRY BusinessSymmetry
INVARIANTS BubblesCurrent ReclaimAddsOnlyWithheld
