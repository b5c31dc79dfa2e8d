SPECIFICATION FairSpec
CONSTANTS
    a1 = a1
    a2 = a2
    x = x
    bad = bad
    Rows = {a1, a2, x, bad}
    PayloadOf <- MCPayloadOf
    KeyOf <- MCKeyOf
    Blank = {bad}
    Refused = {x}
    MaxPending = 2
    ChunkRows = 2
    MaxChunks = 2
    SendId = TRUE
    MaxBatch = 2
    MaxTicks = 3
    MaxCrashes = 1
INVARIANTS
    TypeOK
    NoTickLost
    OnlyPoisonQuarantined
    TrackingHonest
PROPERTIES
    MemoryKeepsTicks
    DurableEvidence
    QueueDrains
CHECK_DEADLOCK FALSE
