\* Two clients, and the maintenance calls between their operations.
CONSTANTS
    t1 = t1
    t2 = t2
    Threads = {t1, t2}
    NULL = NULL
    BlockMinShift = 0
    BlockMaxShift = 3
    LengthModulus = 8
    SpuriousCAS = TRUE
    Maintenance = {"clear", "reset", "free"}
    MaxBlocks = 3
    SlotBound = 2
    MaxTag = 3
    MaxHeld = 2
SPECIFICATION Spec
INVARIANTS PoolListInv MaintenanceSound
CHECK_DEADLOCK FALSE
SYMMETRY ThreadSymmetry
