SPECIFICATION MCSpec
CONSTANTS
    Voter = {v1, v2, v3}
    Candidate = {c1, c2}
    Peer = {c1, c2}
    c1 = c1
    c2 = c2
    Primary = {u}
    Workload <- Workloads
    Image = {i1, i2}
    i1 = i1
    i2 = i2
    MaxReplicas = 2
    Epoch = {0, 1}
    ClusterSize = 3
    MaxRestarts = 1
    NoNode = NoNode
    GrantKey = {grant}
    QuotaKey = {tenant}
    Ceiling = 2
    Payload = {p1, p2}
    MaxStamp = 1
CONSTRAINT Bounded
SYMMETRY Symmetry
INVARIANTS LeaseInv CofoldInv ControllerInv
PROPERTIES ImplementsExclusiveLease
