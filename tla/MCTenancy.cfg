CONSTANTS
    Users = {u1, u2, u3}
    Requests = {r1, r2}
    MaxJoins = 2
    None = None
SPECIFICATION FairSpec
INVARIANTS
    TypeOK
    OneOwnerRole
    OwnerLostOnlyToStaleRead
PROPERTIES
    ActsAtomically
    Answered
CHECK_DEADLOCK FALSE
