SPECIFICATION FairSpec
CONSTANTS
    Clients = {c1, c2}
    BufferLen = 1
    MaxOrders = 4
PROPERTIES
    BlockedWriteEnds
CHECK_DEADLOCK FALSE
