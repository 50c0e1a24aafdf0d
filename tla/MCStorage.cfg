SPECIFICATION MCSpec
CONSTANTS
    Replica = {r1, r2}
    Author = {alice, bob}
    Payload = {p}
    MaxSeq = 2
    MaxEvents = 3
    HashOrder <- NewestFirst
    MaxInFlight = 1
    s1 = s1
    s2 = s2
    Field = {f}
    Writer = {1, 2}
    Store = {s1, s2}
    Home <- TwoHomes
    Kind = {0, 1}
    Tomb = 0
    MaxClock = 2
    StoredOp = {o1, o2, o3}
    Exclusive = {o1}
    Relaxed = TRUE
    MaxCrashes = 2
    MaxFaults = 2
    Operation = {x, y}
    Public = TRUE
    MaxChain = 3
    MaxTroubles = 2
    None = None
    Remote = {east, west}
    Segment = {b1, b2}
    Plain = {b2}
    MaxEpoch = 2
SYMMETRY Symmetry
INVARIANTS LogInv SyncInv StoreInv DurableInv ReplicationInv
PROPERTIES ChainsOnlyGrow AnswersApplyWhole DecisionsMoveForward HeadOnlyExtends
