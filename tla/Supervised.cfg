SPECIFICATION Spec
CONSTANTS
    c1 = c1
    dialog = dialog
    Calls = {c1}
    Kinds <- MCKinds
    MaxInterventions = 6
    MaxRecords = 1
    Rules = {dialog}
    Rule <- MCRules
    N = 2
    Step <- MCSteps
    MaxPauses = 1
CHECK_DEADLOCK FALSE
INVARIANTS
    ApprovalOnRecord
    OutcomeMatchesSession
    BrowserOutlivesConsole
PROPERTIES
    TornDown
