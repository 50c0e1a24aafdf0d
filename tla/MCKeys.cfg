SPECIFICATION MCSpec
CONSTANTS
    User = {alice}
    Cell = {lab, prod}
    Node = {n1, f1, f2}
    Artifact = {opkey, rootkey}
    Root = {rootkey}
    Foreign = {f1, f2}
    Password = {p1, p2}
    Token = {t1, t2, t3, t4}
    MaxSigned = 5
    None = None
    Peer = {owner, ann, ben, cat}
    Owner = owner
    Cert <- AllCerts
    Orders <- SomeOrders
    Policy <- SomePolicies
    owner = owner
    ann = ann
    ben = ben
    cat = cat
    MaxDepth = 3
    Actor = {x}
    All = All
    MaxRevocations = 2
    Member = {owner, ann, ben}
    Genesis = owner
    Role = {r}
    Self = Self
    Quota = {2}
    Missing = Missing
    MaxAttests = 2
    MaxEpoch = 2
SYMMETRY Symmetry
INVARIANTS LedgerInv EscrowInv TrustInv
PROPERTIES AuthorityNarrows
