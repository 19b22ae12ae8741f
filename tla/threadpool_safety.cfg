\* Two workers, two clients, batches of up to two tasks; blocking workers.
CONSTANTS
    w1 = w1
    w2 = w2
    c1 = c1
    c2 = c2
    Workers = {w1, w2}
    Clients = {c1, c2}
    Owner = c1
    NULL = NULL
    PriorityCount = 2
    Platforms = {"win32"}
    SizeModulus = 8
    Calls = {"enqueue", "wait", "shutdown", "delete", "fail"}
    MaxCalls = 2
    MaxBatch = 2
SPECIFICATION Spec
INVARIANTS WorkersCounted  NoLostWakeup
SYMMETRY WorkerSymmetry
CHECK_DEADLOCK FALSE
