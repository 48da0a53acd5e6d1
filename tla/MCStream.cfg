CONSTANTS
    N = 3
    Readers = {r1, r2}
    Hints <- AnyHint
    MaxLength = 2
    MaxInflight = 2
    CacheChunks = 1
    PrefetchChunks = 1
    BatchChunks = 2
    FillOrders <- OneOrder
    MaxMishaps = 1
    Absent = Absent
SPECIFICATION FairSpec
INVARIANTS
    TypeOK
    CountersExact
    OneFetch
    BytesRight
    ReadersServed
    NoIdleSlot
    FillComplete
PROPERTIES
    DemandsAnswered
    FillEnds
CHECK_DEADLOCK FALSE
