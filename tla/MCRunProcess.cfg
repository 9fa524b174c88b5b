SPECIFICATION MCSpec
CONSTANTS
    MaxSpawns = 3
    ShutdownTimeout = 2
    MaxNow = 4
INVARIANTS
    TypeOK
    OwnsWhatRuns
    NoneOutlivesShutdown
PROPERTIES
    GraceBeforeKill
