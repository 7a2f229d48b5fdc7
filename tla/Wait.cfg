SPECIFICATION Spec
CONSTANTS
    Pages <- MCPages
    Expected <- MCExpected
    Rules <- MCRules
    DeadlinePolls = 4
    MaxMoves = 3
CHECK_DEADLOCK FALSE
INVARIANTS
    RecognizedTwice
    RecognizedWasShown
    SteadyStateRecognized
