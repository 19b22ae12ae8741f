SPECIFICATION LoggerSpec
CONSTANTS
    Clients = {c1, c2}
    Platforms = {"posix", "win32"}
    MaxMessages = 2
    MaxShared = 1
    MaxSinks = 2
    SemMax = 2
INVARIANTS
    RecordsDelivered
    FlushComplete
PROPERTY
    FlushReturns
CHECK_DEADLOCK FALSE
