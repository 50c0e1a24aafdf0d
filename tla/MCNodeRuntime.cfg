SPECIFICATION MCSpec
CONSTANTS
    Job = {backup}
    MaxBackoff = 1
    HistoryCap = 1
    Period = 1
    MaxPids = 3
    MaxRows = 3
    MaxRuns = 3
    Name = {web}
    Image = {v1, v2}
    Plain = Plain
    Command = {cmd}
    MaxReplicas = 2
    MaxOps = 2
    MaxDirect = 1
    MaxRestarts = 1
    None = None
    Node = {n1, n2, n3}
    First = {n1, n2}
    Version = {1, 2, 4}
    Target = 2
    Window = 1
    Timeout = 1
    Nothing = Nothing
    Object = {o1, o2}
    Class <- CellOrNode
    User = {u}
    Mode = {"ReadOnly", "ReadWrite"}
    Tag = {t}
    All = All
    Root = {r1, r2}
    MaxEpoch = 3
    Voter = {va, vb, vc}
    ClusterSize = 3
    NoNode = NoNode
    Slots = {0, 1, 2}
    Ledger = {ledger1}
    Requester = {c1, c2}
    Amount = {0, 2, 3}
    Budget = 5
    Site = {west, east}
    Host = {c1, c2, n3, n4}
    SiteOf <- Placements
    Pools <- LastPools
    c1 = c1
    c2 = c2
    n3 = n3
    n4 = n4
    west = west
    east = east
    Purpose = {vip, api}
    Width = 2
    MaxBinds = 3
    Source <- Lines
    Rule <- LineCounts
    PolicySet <- Policies
    Capacity = 2
    Retention = 2
    MaxTick = 2
    MaxBlocks = 1
CONSTRAINT Bounded
INVARIANTS SchedulerInv WorkloadInv CellsInv AdmissionInv SignalInv
PROPERTIES NoSecondChild HookSlotStaysFresh SilentDoNotBlock
