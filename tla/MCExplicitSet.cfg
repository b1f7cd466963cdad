CONSTANTS
    Permissions = {a, b}
    Readers = {r1}
    Writers = {w1, w2}
    MaxVersion = 2
    None = None
    Unchanged = Unchanged
SPECIFICATION Spec
INVARIANT ExplicitSet
CHECK_DEADLOCK FALSE
