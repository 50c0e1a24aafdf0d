SPECIFICATION MCSpec
CONSTANTS
    Voter = {v1, v2, v3}
    Candidate = {c1, c2}
    Peer = {p1}
    Epoch = {0, 1}
    ClusterSize = 3
    MaxRestarts = 1
    NoNode = NoNode
    Id = {alice}
    MaxFailures = 2
    LockoutSecs = 3
    Capacity = 3
    Refill = 1
    Window = 3
    None = None
    MaxPayload = 2
    MaxBytes = 2
    MaxReplyBytes = 1
    MaxAccepts = 2
    MaxWork = 2
    Tiers <- TwoTiers
    MaxCopies = 1
    Backends = 2
    Client = {a}
    Hash <- OddEven
    CursorMod = 2
    MaxInFlight = 2
    MaxTroubles = 2
CHECK_DEADLOCK FALSE
INVARIANTS ThrottleInv TransportInv
PROPERTIES BackedTopEpochIsWon LockEnds ImplementsPipe FlushedIsRead CommandEnds HealthFollows
