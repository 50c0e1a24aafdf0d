SPECIFICATION SignalSpec
CONSTANTS
    Source <- Metrics
    Rule = {}
    PolicySet <- Intervals
    Capacity = 2
    Retention = 9
    MaxTick = 4
    MaxBlocks = 2
    None = None
CHECK_DEADLOCK FALSE
INVARIANTS DroppedWasRepresented
