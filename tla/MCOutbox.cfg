CONSTANTS
    Deliveries = {d1, d2}
    Workers = {w1, w2}
    MaxAttempts = 2
    BatchSize = 2
    MaxFaults = 1
    None = None
SPECIFICATION FairSpec
INVARIANTS
    TypeOK
    RowConsistent
    OneOwner
    AttemptsPaidFor
PROPERTY KeepsPromise
CHECK_DEADLOCK FALSE
