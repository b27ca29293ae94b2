\* Two processes and a removal at any time.
SPECIFICATION ModelFairSpec
CONSTANTS
    Downloaders = {p1, p2}
    Inodes = {f1, f2, f3, f4, f5, f6, f7}
    NoFile = NoFile
    Size = 2
    Announces = TRUE
INVARIANTS
    OneDownload
    CachedIsComplete
PROPERTIES
    CachedIsNotTouched
    EnsuresEnd
