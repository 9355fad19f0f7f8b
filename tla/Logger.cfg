SPECIFICATION Spec
CONSTANTS
    p1 = p1
    p2 = p2
    Process = {p1, p2}
    Thread = {io, engine}
    LogLevel <- MCLogLevel
    MaxCalls = 4
INVARIANTS
    LogsAgree
CHECK_DEADLOCK FALSE
