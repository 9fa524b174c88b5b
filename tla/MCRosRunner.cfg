SPECIFICATION MCSpec
CONSTANTS
    NumScenarios = 2
    MaxSignals = 1
INVARIANTS
    TypeOK
    TickedScenariosJudged
PROPERTIES
    NoTickAfterTeardown
    ShutdownEndsSpin
