CONSTANTS
    MaxRuns = 2
    MaxCalls = 3
SPECIFICATION MCSpec
INVARIANTS
    Types
    EndsWithItsBag
    FirstCallDecides
PROPERTY
    ReplyEndsAction
CHECK_DEADLOCK FALSE
