\* Two producers and a polling consumer, the way the logger uses the queue,
\* all fairly scheduled; enough pushes for a recycled node to be linked again.
CONSTANTS
    p1 = p1
    p2 = p2
    c1 = c1
    Producers = {p1, p2}
    Consumers = {c1}
    NULL = NULL
    SpuriousCAS = FALSE
    Clears = FALSE
    SizeModulus = 8
    MaxPush = 2
    MaxNodes = 5
SPECIFICATION FairSpec
INVARIANTS NoDuplicate NoLoss
PROPERTIES EventuallyDelivered
