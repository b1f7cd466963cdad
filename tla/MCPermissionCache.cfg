CONSTANTS
    Permissions = {a}
    Readers = {r1, r2}
    Writers = {w1, w2}
    MaxVersion = 2
    None = None
    Unchanged = Unchanged
SPECIFICATION Spec
SYMMETRY Symmetry
INVARIANTS
    TypeOK
    CurrentEntryExact
    AnswerIsCommitted
CHECK_DEADLOCK FALSE
