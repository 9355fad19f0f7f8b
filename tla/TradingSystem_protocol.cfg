SPECIFICATION Spec
CONSTANTS
    Quoters = {q1}
    Takers = {t1}
    Measured = {}
    Targets = {1, 2}
    kOrderQty = 2
    kMaxQty = 2
    SeqRange = 1000
    MaxTargets = 2
    Stoppable = {t1}
    ServerMayStop = TRUE
    kSeedClientId = seed
    SeedBids = {1}
    SeedAsks = {2}
    kSeedQty = 1
PROPERTY
    FollowsProtocol
CHECK_DEADLOCK FALSE
