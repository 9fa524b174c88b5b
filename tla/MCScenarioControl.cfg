SPECIFICATION MCSpec
CONSTANTS
    MaxRequests = 2
    MaxStops = 1
INVARIANTS
    TypeOK
    OneApplication
PROPERTIES
    StoppedWhenAnswered
    ShutdownReturns
