\* Every constructor, mode, filter and kind of nesting, one caller.
SPECIFICATION Spec
CONSTANTS
    Parts <- AllParts
    Configs <- AllConfigs
    Clients = {c1}
INVARIANTS
    StrayOnlyWhenNested
    HiddenNeverReached
    ListedCallServed
    ReadsReachTheirSource
