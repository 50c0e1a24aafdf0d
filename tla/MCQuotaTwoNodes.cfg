SPECIFICATION Spec
CONSTANTS
    Voter = {v1, v2, v3}
    Candidate = {c1, c2}
    ClusterSize = 3
    NoNode = NoNode
    Amount = {0, 2, 3}
    Budget = 5
    Node = {n1, n2}
    Epoch = {0}
CHECK_DEADLOCK FALSE
INVARIANTS SharedBudgetRespected
