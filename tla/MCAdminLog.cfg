SPECIFICATION Spec
CONSTANTS
    a1 = a1
    b1 = b1
    b2 = b2
    g1 = g1
    Nobody = Nobody
    NoGroup = NoGroup
    Groups <- OneGroup
    Unknown = Unknown
    Admins <- OneAdmin
    Businesses <- TwoBusinesses
    DefaultLimit = 1
    MaxLimit = 2
    MaxRows = 2
CONSTRAINT Short
SYMMETRY BusinessSymmetry
INVARIANTS ViewsCurrent IntroducedOnce LogIsNewest
