SPECIFICATION LoggerSpec
CONSTANTS
    Clients = {c1, c2}
    Platforms = {"posix"}
    MaxMessages = 2
    MaxShared = 1
    MaxSinks = 1
    SemMax = 2
INVARIANT
    FlushCoversAll
CHECK_DEADLOCK FALSE
