SPECIFICATION Spec
CONSTANTS
    Calls = {c1, c2, c3, c4}
    Sessions = {s1, s2}
    None = None
    MAX_CRED = 2
SYMMETRY CallsAreAlike
INVARIANTS
    OpenProxyHasSession
    OneSession
PROPERTIES
    CarriesFresh
CHECK_DEADLOCK FALSE
