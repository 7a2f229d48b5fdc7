SPECIFICATION Spec
CONSTANTS
    Letters = {"a", "b", "s", "e", "h", "p", "x"}
    Digits = {"1", "2"}
    MIN_CANONICALIZED_LENGTH = 2
    MIN_SECRET_LENGTH = 3
    Names <- MCNames
    Values <- MCValues
    Others <- MCOthers
    BaseUrls <- MCBaseUrls
    Decisions <- MCDecisions
    Paths <- MCPaths
    MaxItems = 2
CHECK_DEADLOCK FALSE
INVARIANTS
    RoundTrip
    FollowsItsInput
    SubstitutionIsTotal
    
