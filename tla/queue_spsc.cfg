\* One producer, one consumer, Clear between their operations; as many pushes
\* as it takes to recycle nodes twice.
CONSTANTS
    p1 = p1
    c1 = c1
    Producers = {p1}
    Consumers = {c1}
    NULL = NULL
    SpuriousCAS = FALSE
    Clears = TRUE
    SizeModulus = 8
    MaxPush = 4
    MaxNodes = 5
SPECIFICATION Spec
INVARIANTS SizeSettles NodesSound
PROPERTIES ImplementsFifo EmptyMeansEmpty
