SPECIFICATION FairSpec
CONSTANTS
    Items = {a, b}
    MaxPushes = 4
INVARIANTS
    TypeOK
    WakeupDue
    ExitDrained
PROPERTIES
    ImplementsChannel
CHECK_DEADLOCK FALSE
