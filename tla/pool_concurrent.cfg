\* Two clients that take and return, fairly scheduled, blocks of 1, 1, 2 and 4
\* elements: more than they can hold, and long enough for a top element to be
\* taken, returned and met again by a client that read it before.
CONSTANTS
    t1 = t1
    t2 = t2
    Threads = {t1, t2}
    NULL = NULL
    BlockMinShift = 0
    BlockMaxShift = 4
    LengthModulus = 8
    SpuriousCAS = FALSE
    Maintenance = {}
    MaxBlocks = 4
    SlotBound = 4
    MaxTag = 6
    MaxHeld = 3
SPECIFICATION FairSpec
INVARIANTS TypeOK FreeListIntact ExclusiveOwnership PopInstallsNext ElementsCounted BlocksSound
PROPERTIES ImplementsElementPool SystemProgress
CHECK_DEADLOCK FALSE
