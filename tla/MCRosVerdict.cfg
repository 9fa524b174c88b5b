SPECIFICATION MCSpec
CONSTANTS
    NumScenarios = 2
    MaxSignals = 0
INVARIANT
    VerdictSound
