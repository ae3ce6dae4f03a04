CONSTANTS
    A = A
    B = B
    W = W
    NoMessage = NoMessage
    Unknown = Unknown
    Absent = Absent
    Pending = Pending
    Messages = {A, B, W}
    Wrappers = {W}
    t1 = t1
    t2 = t2
    new = new
    Loaders = {t1, t2}
    Constructor = new
    Schemas <- MCSchemas
    SeedLists <- MCSeeds
SPECIFICATION FairSpec
INVARIANTS
    TypeOK
    PublishedClosed
    SameEvaluator
    BuiltOnce
PROPERTIES
    CacheGrows
    PublishedImmutable
    NoBuildWhenDisabled
    ImplementsStore
    LoadReturns
