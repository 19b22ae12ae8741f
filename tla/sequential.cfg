SPECIFICATION Spec
CONSTANTS
    Subjects = {"pool", "memory", "deque", "buffer", "stack", "set", "list", "heap", "table",
        "algorithms", "path", "lanes", "codec", "wide", "tree"}
    m1 = m1
    m2 = m2
    FirstSize = 1
    FirstTable = 2
    MaxBlocks = 3
    Origins = {0, 2, 4, 6, 8}
    Aligns = {1, 2, 4, 8}
    MaxLength = 3
    Items = {m1, m2}
    MaxElements = 4
    BufferSize = 2
    MaxCapacity = 8
    MaxSize = 2
INVARIANTS
    AllocatorsSound
    SetSound
    ListSound
    HeapsSound
    TableSound
    SequencesSound
    FunctionsRight
    CodecSound
    TreeSound
PROPERTY
    IteratorsStable
CHECK_DEADLOCK FALSE
