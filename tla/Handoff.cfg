SPECIFICATION Spec
CONSTANTS
    c1 = c1
    c2 = c2
    Calls = {c1, c2}
    Kinds <- MCKinds
    MaxInterventions = 2
    MaxRecords = 3
INVARIANTS
    TypeOK
    StatusMatchesSession
    NoIllegalTransition
    LogImpliesControl
    OverlapOnlyAfterRelease
PROPERTIES
    ResolvedForGood
    HumanNeverStartsOverAutomation
    PauseHonoured
    ImplementsControlHandoff
