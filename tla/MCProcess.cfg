CONSTANTS
    Requests = {r1, r2}
    Workers = {w1, w2}
    MaxClients = 2
    MaxQueue = 1
SPECIFICATION FairSpec
INVARIANTS
    TypeOK
    GracefulExit
PROPERTIES
    ReadyIsFresh
    ReadinessAnswered
    Recovers
    Exits
CHECK_DEADLOCK FALSE
