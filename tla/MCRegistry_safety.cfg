SPECIFICATION Spec
CONSTANTS
    n1 = n1
    n2 = n2
    n3 = n3
    x1 = x1
    x2 = x2
    x3 = x3
    ga = ga
    gb = gb
    NoId = NoId
    Numbers <- SomeNumbers
    Supplied <- SomeSupplied
    Names <- SomeNames
    Slug <- SomeSlugs
    MaxBusinesses = 2
    MaxGroupSize = 2
    MaxMock = 2
    MaxMessages = 2
SYMMETRY NameSymmetry
INVARIANTS NumbersDisjoint NoOrphans OneBusinessPerConversation
PROPERTIES FiledUnlessAmbiguous
