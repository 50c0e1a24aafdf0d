SPECIFICATION PersistSpec
CONSTANTS
    StoredOp = {o1, o2}
    Exclusive = {}
    Relaxed = FALSE
    MaxCrashes = 1
    MaxFaults = 0
CHECK_DEADLOCK FALSE
INVARIANTS ReopensAfterCrash
