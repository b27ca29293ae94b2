\* Two requests with different timeouts and two attempts each.
SPECIFICATION Spec
CONSTANTS
    r1 = r1
    r2 = r2
    Requests = {r1, r2}
    Ports = {p1}
    NoPort = NoPort
    RETRIES = 2
    READY = 1
    TIMEOUT <- MCTimeout
    LATE = 1
INVARIANTS
    NoServerLeft
    StrayAnswerOnlyAfterPortRace
    HungAttemptsTakeTheirTime
PROPERTIES
    RequestEnds
CHECK_DEADLOCK FALSE
