SPECIFICATION Spec
CONSTANTS
    s1 = s1
    s2 = s2
    s3 = s3
    s4 = s4
    u1 = u1
    u2 = u2
    Sessions = {s1, s2, s3, s4}
    Pid <- MCPid
    Ports = {p1, p2}
    NoPort = NoPort
    Alone = {s4}
    Users = {u1, u2}
    Home <- MCHome
INVARIANTS
    ReadyIsListed
PROPERTIES
    RunsInItsTree
    ExecutesWherePicked
CHECK_DEADLOCK FALSE
