SPECIFICATION Spec
CONSTANTS
    b1 = b1
    b2 = b2
    p1 = p1
    p2 = p2
    d1 = d1
    d2 = d2
    Backends = {b1, b2}
    Dirs = {d1, d2}
    Dir <- MCDir
    Connectors = {p1, p2}
    For <- MCFor
    Cleaners = {q1}
    Targets <- MCTargets
INVARIANTS
    CredentialsAreListed
    ClearedIsGone
CHECK_DEADLOCK FALSE
