SPECIFICATION Spec
CONSTANTS
    a = a
    b = b
    c_ = c
    d = d
    form1 = form1
    form2 = form2
    NoElement = NoElement
    Elements <- MCElements
    Visible <- MCVisible
    Enabled <- MCEnabled
    Inside <- MCInside
    Selectors <- MCSelectors
    Semantic <- MCSemantic
    Targets <- MCTargets
    Controls <- MCControls
    Pages <- MCPages
    Turns <- Changing
    RequireEnabled = TRUE
    AllowCoordinates = TRUE
    DeadlinePasses = 4
    MaxMoves = 3
CHECK_DEADLOCK FALSE
INVARIANTS
    AgreesWithPromise
    RecordedTargetResolves
    FailsEarlyOnlyOnTies
