\* No refreshes: three readers, two of which also invalidate, on a fair runtime.
SPECIFICATION FairSpec
CONSTANTS
    Getters = {t1, t2, t3}
    Refreshers = {}
    Invalidators = {t2, t3}
    MaxGeneration = 2
    MaxVersion = 0
PROPERTIES
    ImplementsPromise
    CallsEnd
