CONSTANTS
    Tokens = {t1, t2, t3}
    Requests = {r1, r2}
    Retention = Retention
    None = None
SPECIFICATION FairSpec
INVARIANT TypeOK
PROPERTIES
    ActsAtomically
    HoldOverridesDeletion
    NeverStranded
    ReplacementComplete
    Answered
CHECK_DEADLOCK FALSE
