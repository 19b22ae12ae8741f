\* One producer, two consumers: the way the thread pool uses the queue.
CONSTANTS
    p1 = p1
    c1 = c1
    c2 = c2
    Producers = {p1}
    Consumers = {c1, c2}
    NULL = NULL
    SpuriousCAS = FALSE
    Clears = FALSE
    SizeModulus = 8
    MaxPush = 3
    MaxNodes = 4
SPECIFICATION Spec
INVARIANTS NoDuplicate
