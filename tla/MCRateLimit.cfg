CONSTANTS
    Requests = {r1, r2}
    Limit = 2
    Window = 2
SPECIFICATION FairSpec
INVARIANTS
    TypeOK
    WindowQuota
PROPERTY NoLockout
