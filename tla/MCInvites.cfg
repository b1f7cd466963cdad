CONSTANTS
    Users = {u1}
    Roles = {"custom"}
    Ids = {i1, i2}
    Requests = {r1, r2}
    Retention = Retention
    None = None
SPECIFICATION FairSpec
INVARIANTS
    TypeOK
    CountsHold
PROPERTIES
    JoinOnlyByInvite
    ActsAtomically
    Answered
CHECK_DEADLOCK FALSE
