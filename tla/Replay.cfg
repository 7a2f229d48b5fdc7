SPECIFICATION Spec
CONSTANTS
    transient = transient
    dialog = dialog
    notFound = notFound
    Rules = {transient, dialog, notFound}
    Rule <- MCRules
    N = 3
    Step <- MCFlow
    MaxPauses = 1
CHECK_DEADLOCK FALSE
INVARIANTS
    StepsAccountedFor
    SuccessIsEarned
    RecoveriesWithinBudget
    TriesWithinBudgets
PROPERTIES
    RefusalIsFinal
    ImplementsCapabilityRun
