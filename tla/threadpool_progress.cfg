\* Two workers, one client, on both platforms, fairly scheduled.
CONSTANTS
    w1 = w1
    w2 = w2
    c1 = c1
    Workers = {w1, w2}
    Clients = {c1}
    Owner = c1
    NULL = NULL
    PriorityCount = 2
    Platforms = {"posix", "win32"}
    SizeModulus = 8
    Calls = {"enqueue", "wait", "shutdown", "delete", "fail"}
    MaxCalls = 2
    MaxBatch = 1
SPECIFICATION FairSpec
PROPERTIES TasksRun WorkersExit
CHECK_DEADLOCK FALSE
