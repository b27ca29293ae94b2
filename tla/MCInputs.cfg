SPECIFICATION MCSpec
CHECK_DEADLOCK FALSE
INVARIANTS
    ParsersAgree
    ParsedIsValid
    HelpIsTrue
    FunctionsAreAsTold
    HeadersReach
    NoArgumentIsLost
    NoAnswerIsLost
    StatusIsTrue
