CONSTANTS
    Users = {u1}
    Roles = {"system", "custom"}
    Ids = {i1, i2}
    Requests = {r1, r2}
    Retention = Retention
    None = None
SPECIFICATION Spec
SYMMETRY Symmetry
INVARIANTS
    CountsSuffice
CHECK_DEADLOCK FALSE
