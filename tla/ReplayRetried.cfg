SPECIFICATION Spec
CONSTANTS
    transient = transient
    dialog = dialog
    notFound = notFound
    Rules = {transient, dialog}
    Rule <- MCRules
    N = 2
    Step <- MCPair
    MaxPauses = 0
CHECK_DEADLOCK FALSE
INVARIANT IrreversibleNeverRetried
