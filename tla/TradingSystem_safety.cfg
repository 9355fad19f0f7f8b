SPECIFICATION Spec
CONSTANTS
    Quoters = {q1}
    Takers = {t1}
    Measured = {q1}
    Targets = {0, 1, 2}
    kOrderQty = 2
    kMaxQty = 2
    SeqRange = 1000
    MaxTargets = 3
    Stoppable = {t1}
    ServerMayStop = TRUE
    kSeedClientId = seed
    SeedBids = {1}
    SeedAsks = {2}
    kSeedQty = 1
INVARIANTS
    TypeOK
    OneOrderPerSide
    ExposureExact
    InflightAnswered
    BacklogBounded
    InflightBounded
CHECK_DEADLOCK FALSE
