SPECIFICATION PolicySpec
CONSTANTS
    Policies <- MCPolicies
    Requests <- MCRequests
    Urls <- MCUrls
CHECK_DEADLOCK FALSE
INVARIANTS
    ConfirmationSurvivesRecording
    RuleOrderIsIrrelevant
