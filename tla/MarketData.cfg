SPECIFICATION Spec
CONSTANTS
    kNumLayers = 2
    kPriceLen = 1
    kQtyLen = 1
    IntMax = 31
    kSeedMid = 5
    kPriceRange = 1
    CertainDev = 2
    kSeedClientId = seed
    SeedBids = {4}
    SeedAsks = {6}
    kSeedQty = 2
    Sender = c1
    Prices = {3, 4, 5, 6, 12}
    Qtys = {0, 8}
    MaxResting = 4
    Qs = {0, 2, 3, 6}
    Ns = {0, 1, 5, 30}
INVARIANTS
    TargetIsQthLot
    TargetFound
    MidInsideSpread
