SPECIFICATION FairSpec
CONSTANTS
    Srv = srv
    Quoters = {q1}
    Takers = {t1}
    MaxOrders = 1
INVARIANTS
    EngineUsesLiveObjects
    TerminalRestored
PROPERTIES
    EndsForSure
    OrphanExits
CHECK_DEADLOCK FALSE
