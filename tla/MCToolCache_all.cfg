\* Two tasks that read and refresh, one that invalidates.
SPECIFICATION Spec
CONSTANTS
    Getters = {t1, t2}
    Refreshers = {t1, t2}
    Invalidators = {t3}
    MaxGeneration = 2
    MaxVersion = 2
INVARIANTS
    OnlyRacingRefreshIsStale
    OneFetchPerGeneration
PROPERTIES
    GetAllNeverRegresses
