SPECIFICATION Spec
CONSTANTS
    Replica = {r1, r2}
    Field = {f}
    Author = {1, 2}
    Home <- Everywhere
    Kind = {0, 1}
    Tomb = 0
    MaxClock = 2
INVARIANTS ReadsLikeFullHistory
