CONSTANTS
    Handle = {u1}
    First = root
    Email = {e1}
    Cred = {c1}
    MaxLost = 0
    None = None
SPECIFICATION Spec
INVARIANTS DisabledNeverActive
