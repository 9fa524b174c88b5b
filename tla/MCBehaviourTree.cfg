SPECIFICATION MCSpec
CONSTANTS
    Elements <- MCElements
    Scenarios <- MCScenarios
    MaxNow = 8
    MaxStep = 2
INVARIANTS
    TypeOK
    NothingLeftRunning
    UntilEnds
    HeldForDuration
    TimeoutEnds
