SPECIFICATION Spec
CONSTANTS
    Quoters = {q1}
    Takers = {}
    Measured = {}
    Stoppable = {}
    Targets = {1, 2, 3}
    kOrderQty = 1
    kMaxQty = 1
    MaxTargets = 2
    ServerMayStop = FALSE
    kSeedClientId = seed
    SeedBids = {1}
    SeedAsks = {3}
    kSeedQty = 1
    SeqRange = 1000
INVARIANT
    PendingKept
CHECK_DEADLOCK FALSE
