\* Two requests at a time; an await fails or the process dies.
CONSTANTS
    r1 = r1
    p1 = p1
    p2 = p2
    AllOfThem = AllOfThem
    NoKey = NoKey
    NoView = NoView
    Restaurants = {r1}
    Requesters = {p1, p2}
    ReadKeys <- OwnKeys
    MaxVersion = 2
    MaxSales = 1
    MaxMishaps = 1
SPECIFICATION FairSpec
INVARIANTS
    CatalogueTypeOK
    StaleMeansRaced
PROPERTY CacheHeals
CHECK_DEADLOCK FALSE
