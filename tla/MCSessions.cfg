CONSTANTS
    Sessions = {s1, s2}
    Requests = {r1, r2}
    Retention = Retention
    None = None
SPECIFICATION FairSpec
INVARIANTS
    TypeOK
    SingleUse
    TheftContained
    RevocationComplete
    LogoutEndsToken
PROPERTIES
    ActsAtomically
    Answered
CHECK_DEADLOCK FALSE
