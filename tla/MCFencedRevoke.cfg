SPECIFICATION CofoldSpec
CONSTANTS
    Voter = {v1, v2, v3}
    Candidate = {c1}
    Epoch = {0}
    ClusterSize = 3
    NoNode = NoNode
    GrantKey = {grant}
    QuotaKey = {}
    Ceiling = 0
    Payload = {p1}
    MaxStamp = 2
CHECK_DEADLOCK FALSE
INVARIANTS RevokedBeatsStaleGrants
