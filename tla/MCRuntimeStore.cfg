\* Two processes and the three archive names of a release.
SPECIFICATION RuntimeFairSpec
CONSTANTS
    Processes = {p1, p2}
    Nobody = Nobody
    Last = 3
INVARIANTS
    PartIsBeingCopied
PROPERTIES
    InstalledIsNotTouched
    CallsEnd
