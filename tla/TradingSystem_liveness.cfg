SPECIFICATION FairSpec
CONSTANTS
    Quoters = {q1}
    Takers = {}
    Measured = {}
    Stoppable = {}
    Targets = {1, 2}
    kOrderQty = 2
    kMaxQty = 1
    SeqRange = 1
    MaxTargets = 0
    ServerMayStop = TRUE
    kSeedClientId = seed
    SeedBids = {1}
    SeedAsks = {2}
    kSeedQty = 1
PROPERTY
    WaitEnds
CHECK_DEADLOCK FALSE
