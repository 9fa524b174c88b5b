SPECIFICATION MCSpec
CONSTANTS
    MaxSpawns = 2
    ShutdownTimeout = 1
    MaxNow = 3
INVARIANT AskedAtScenarioEnd
