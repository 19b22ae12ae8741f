\* One worker; one client that enqueues a task and waits for it.
CONSTANTS
    w1 = w1
    c1 = c1
    Workers = {w1}
    Clients = {c1}
    Owner = c1
    NULL = NULL
    PriorityCount = 2
    Platforms = {"posix"}
    SizeModulus = 8
    Calls = {"enqueue", "wait"}
    MaxCalls = 2
    MaxBatch = 1
SPECIFICATION Spec
PROPERTIES WaitCompletes
CHECK_DEADLOCK FALSE
