CONSTANTS
    Users = {u1, u2, u3}
    Requests = {r1, r2}
    MaxJoins = 1
    None = None
SPECIFICATION Spec
SYMMETRY Symmetry
INVARIANT OwnerKeepsRole
CHECK_DEADLOCK FALSE
