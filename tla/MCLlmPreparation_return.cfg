\* The background task and one user of the assistant, nobody cancels.
SPECIFICATION ManagerFairSpec
CONSTANTS
    Callers = {background, user}
    Cancellable = {}
PROPERTIES
    EveryCallReturns
