SPECIFICATION MMSpec
CONSTANTS
    Quoters = {q1}
    Takers = {t1}
    Measured = {}
    Stoppable = {}
    Targets = {}
    kOrderQty = 2
    kMaxQty = 3
    SeqRange = 1
    MaxTargets = 0
    ServerMayStop = FALSE
    kSeedClientId = seed
    SeedBids = {1, 2}
    SeedAsks = {4, 10}
    kSeedQty = 1
    kNumLayers = 2
    kPriceLen = 1
    kQtyLen = 1
    IntMax = 31
    kSeedMid = 3
    kPriceRange = 1
    CertainDev = 25
    Q <- MCQ
    N <- MCN
    MaxFeed = 2
    MaxTicks = 1
INVARIANTS
    QuietAtTarget
    QuietBookAgrees
CHECK_DEADLOCK FALSE
