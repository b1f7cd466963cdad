CONSTANTS
    Sessions = {s1}
    Requests = {r1, r2}
    Retention = Retention
    None = None
SPECIFICATION Spec
INVARIANT LogoutEndsSession
CHECK_DEADLOCK FALSE
