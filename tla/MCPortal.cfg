SPECIFICATION MCSpec
CONSTANTS
    User = {alice, bob}
    Cred = {c1}
    SessionTtl = 2
    ChallengeTtl = 0
    MaxSessions = 2
    MaxPending = 1
    MaxSeq = 2
    MaxClock = 2
    MaxCount = 1
    MaxRestarts = 1
    MaxLost = 1
    None = None
    Invitee = {u1}
    First = root
    Email = {e1, e2}
    Passkey = {k1}
    Handle = {ann, ben}
    MaxDepth = 2
    Level = {1}
    Cap <- OneCap
    Role = {r}
    Group = {g}
    Place = {0, 3}
    MaxSpeed = 1
    MaxTime = 1
    MaxQuorum = 2
    MaxActs = 4
    MaxRequests = 1
    Client = {cl}
    Uri = {uri}
    ScopeName = {openid}
    Verifier = {v}
    MaxCounter = 5
    Kid = {kid1, kid2, kid3}
    Grace = 1
    MaxSeconds = 4
CHECK_DEADLOCK FALSE
SYMMETRY Symmetry
INVARIANTS SessionsInv AccountsInv ReplayMatchesLive GovernanceInv OidcInv
PROPERTIES RevokedNeverPromotes RecoveryNeedsEveryQuorumAsked
