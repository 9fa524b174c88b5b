SPECIFICATION MCSpec
CONSTANTS
    NumScenarios = 2
    MaxSignals = 2
INVARIANTS
    TypeOK
    VerdictSound
    FailDominates
    ReleasedOnceReportable
    LoggersClosed
PROPERTIES
    KeepsPromise
    VerdictEndsScenario
