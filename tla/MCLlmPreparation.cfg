\* Four callers of which two may be dropped.
SPECIFICATION ManagerFairSpec
CONSTANTS
    Callers = {c1, c2, c3, c4}
    Cancellable = {c3, c4}
INVARIANTS
    PreparedOnce
    Agreement
    WokenFindsOutcome
PROPERTIES
    RegisteredIsWoken
